---- MODULE Spec2Model ----
(***************************************************************************)
(* Verification model of the etherscan_transaction harvesters and mergers. *)
(*                                                                         *)
(*   Spec       the EVM backward harvester (fetch_eth.py) with its         *)
(*              coverage index (utils/utils.py), run repeatedly against a  *)
(*              remote chain that grows between runs.                      *)
(*   SpecIO     the same with disk faults (write_csv raises, save_index    *)
(*              fails and is swallowed).                                   *)
(*   SpecTron   the TRON windowed harvester (fetch_tron.py) with its       *)
(*              resume file and block store, interrupted and restarted.    *)
(*   SpecMerge, SpecMergeBatch   the merger (merge_eth.py).                *)
(*   SpecIndex  the index file written and read back (utils/utils.py).     *)
(*   SpecBlock  a TRON block file under _write_block_records.              *)
(*   SpecPool   a call of fetch_costs_parallel (utils/tronscan.py).        *)
(*   SpecRetry  a call of _etherscan_get or _get_single.                   *)
(*   SpecBases  a call of _get over the base endpoints.                    *)
(*   SpecNorm   a call of a normalizer (utils/tronscan.py).                *)
(*   SpecTerm   one run of the EVM harvester on any chain and any index    *)
(*              file, its loop scheduled fairly.                           *)
(*   SpecFlaky  Spec with a remote that may answer a page with no record.  *)
(*   SpecCal    the TRON harvester's window list as the months pass.       *)
(*   SpecLegacy the legacy harvester (fetch.py), its loop scheduled        *)
(*              fairly.                                                    *)
(*                                                                         *)
(* A remote record is the pair <<block, i>>: the i-th token transfer of    *)
(* block `block`; the pair is also its hash.  A chunk file name            *)
(* "HIGH_LOW.csv" is the pair <<HIGH, LOW>>.  An optional value (Python    *)
(* None) is the empty sequence, a present value v is <<v>>.                *)
(***************************************************************************)
EXTENDS Integers, Sequences, FiniteSets, TLC

\* ------------------------------------------------------------------ bounds
MaxBlock == 3        \* highest block number the remote chain reaches
MaxPerBlock == 2     \* most records one block holds
MaxLimit == 2        \* the remote API's page size is one of 1..MaxLimit
MaxTx == 2           \* TRON transaction ids are 1..MaxTx
MaxWindows == 2      \* most month windows of a TRON harvest
MaxSlices == 2       \* most slices one window is cut into
MaxSkipped == 1      \* unreadable pages followed beyond the page cap
MaxAgain == 3        \* repeated requests are counted up to MaxAgain
MaxKills == 2        \* kills of the observed TRON harvester
MaxChunkBlock == 1   \* chunk files to merge range over blocks 0..MaxChunkBlock
MaxEpoch == 1        \* fetch times of chunk files are 0..MaxEpoch
MaxCrashes == 1      \* times the merger is killed
MaxBatchChunks == 5  \* chunk files of the directory in the study of batch saves
MaxIds == 2          \* transaction ids of block-file records are 1..MaxIds
MaxTs == 2           \* timestamps of block-file records are 1..MaxTs
MaxFileLen == 3      \* records of a block file
MaxWrite == 2        \* records passed to one _write_block_records call
MaxHash == 4         \* transaction hashes of a cost lookup are 1..MaxHash
MaxHashes == 5       \* length of the list passed to fetch_costs_parallel
MaxWorkers == 2      \* max_workers is 1..MaxWorkers
MaxRetries == 3      \* max_retries / retries of an HTTP helper is 0..MaxRetries
MaxMonth == 5        \* months that pass after the boundary's month
MaxTurns == 4        \* turns of the legacy loop are counted up to MaxTurns
MaxBases == 2        \* base endpoints of the TRON paging client
MaxRaw == 3          \* records of a list passed to a normalizer
MS_PER_SEC == 10     \* 1000 in utils/tronscan.py, scaled down
MS_FROM == 100       \* 10**12 in utils/tronscan.py, scaled down alike
MAX_DT_SEC == 25     \* 253402300799, the last second of year 9999, scaled
MaxIdxBlock == 1     \* index.json studies use chunk names over 0..MaxIdxBlock
BATCH_SAVE_INTERVAL == 2   \* 100 in merge_eth.py, scaled down
PAGE_LIMIT == 2            \* TRON_PAGE_LIMIT (environment), scaled down
MAX_PAGES_PER_WINDOW == 4  \* TRON_MAX_PAGES_PER_WINDOW (environment), scaled

\* ------------------------------------------------------- program constants
\* Mutant: the limit must be exceeded, not reached.
MaxEmptyBatchesExceeded == 3 + 1
MAX_EMPTY_BATCHES == 3
DUP_PAGES_BREAK == 3

VARIABLES
    remote,          \* remote[b+1] = number of records of block b (blocks 0..Len-1)
    limit,           \* page size limit of the remote API
    repeatable,      \* the last run completed and the chain is unchanged since
    pc,              \* "idle" | "loop" | "done"
    start_ts,        \* boundary timestamp (start_date of __main__)
    current_block,   \* cursor
    empty_batches,
    written,
    index,           \* the index held in memory by the run
    diskIndex,       \* content of index.json: <<>> (no file) or <<index>>
    chunks,          \* chunk directory: file name -> set of rows
    reqs,            \* number of _fetch_batch requests issued by the last step
    outcome,         \* how the run that just finished ended
    saveFailed,      \* some save_index of the current run failed
    rerun,           \* this run repeats a completed run on unchanged inputs
    consecEmpty,     \* consecutive empty pages fetched so far by this run
    torn             \* chunk files on disk whose write did not finish

evmVars == << remote, limit, repeatable, pc, start_ts, current_block,
             empty_batches, written, index, diskIndex, chunks, reqs, outcome,
             saveFailed, rerun, consecEmpty, torn >>

\* TRON harvester (fetch_tron.py)
VARIABLES
    nWin,            \* len(windows): month windows, newest first
    nSlices,         \* slices per window (1 when SUBWINDOW_DAYS = 0)
    tpc,             \* "idle" | "page" (inside the page loop)
    win_index,
    slice_idx,
    page_offset,
    pages_in_slice,
    resume,          \* the resume dict in memory
    resumeFile,      \* content of resume.json: <<>> (no file) or <<dict>>
    tronStore,       \* transaction ids held by the block files
    dupRun,          \* consecutive stored pages of this slice that added nothing
    prevEnd,         \* how the previous slice of this run ended
    observe,         \* whether this behaviour records repeated requests
    seen,            \* requests <<window, slice, offset>> whose page was stored
    again,           \* stored pages whose request was already in `seen`, so far
    passedOnFailure, \* a window was passed over because a fetch had failed
    kills,           \* kills of the observed harvester so far
    winDups          \* consecutive stored pages without a new record since the
                     \* harvest entered its present window

tronVars == << nWin, nSlices, tpc, win_index, slice_idx, page_offset,
               pages_in_slice, resume, resumeFile, tronStore, dupRun, prevEnd,
               observe, seen, again, passedOnFailure, kills,
               winDups >>

\* Mergers (merge_eth.py, merge.py)
VARIABLES
    mdir,            \* the chunk directory: file name -> [e, ok]
    mpc,             \* "idle" | "loop" (inside merge_eth's loop)
    mindex,          \* merge_eth's index in memory
    mdiskIndex,      \* index.json of the chunk directory
    new_chunks,      \* the candidates, newest first
    mi,              \* i, the 1-based position in new_chunks
    processed_files,
    output,          \* rows of the merged CSV of merge_eth.py
    legacyOut,       \* rows of the merged CSV of merge.py
    crashes,
    once,            \* a merge_eth run completed on the present directory
    mergedLen,       \* rows of `output` after the first such run
    twice            \* a second merge_eth run completed on it

mergeVars == << mdir, mpc, mindex, mdiskIndex, new_chunks, mi, processed_files,
                output, legacyOut, crashes, once, mergedLen, twice >>

\* Index persistence (utils.py)
VARIABLES
    ix,              \* an index in memory
    ixFile,          \* content of an index.json: <<>> (no file) or <<document>>
    ixLegacy         \* a legacy flat file has been loaded

idxVars == << ix, ixFile, ixLegacy >>

\* A TRON block file (fetch_tron.py, _write_block_records)
VARIABLES
    blkFile,         \* the records of blocks/<block>.json, in file order
    blkPrev,         \* the file before the last call
    blkLast          \* the records passed to the last call

blkVars == << blkFile, blkPrev, blkLast >>

\* A call of fetch_costs_parallel (utils/tronscan.py)
VARIABLES
    hashes,          \* the list passed to the call, then the list without repeats
    max_workers,     \* the size of the thread pool
    ppc,             \* "called", "seq", "pool", "returned" or "raised"
    lookup,          \* per hash: "none", "queued", "running", "ok", "failed", "raised"
    results          \* per hash: "absent", "cost" or "pending"

poolVars == << hashes, max_workers, ppc, lookup, results >>

\* A call of _etherscan_get (fetch_eth.py) or _get_single (utils/tronscan.py)
VARIABLES
    rfn,             \* the function called: "none", "eth" or "tron"
    retries,         \* its max_retries / retries argument
    attempt,         \* the loop variable `attempt`
    nreq,            \* requests.get calls made so far
    sleeps,          \* the time.sleep calls so far, in milliseconds
    resp,            \* the answer to the last request, "none" before it
    ret,             \* <<>> while running, <<value>> once returned
    rpc              \* "idle", "running", "returned" or "raised"

retryVars == << rfn, retries, attempt, nreq, sleeps, resp, ret, rpc >>

\* The month windows of harvest_simple over restarts (fetch_tron.py)
VARIABLES
    now_month,       \* the month of now_dt, counted from the boundary's month 0
    windows,         \* the list _month_windows gave the run, << >> when idle
    cpc,             \* "idle" or "run"
    cal_win_index,   \* win_index of the run
    cal_resume,      \* 'win_index' of resume.json: <<>> (no file) or <<n>>
    savedCal,        \* the month of the window resume.json pointed at when it
                     \* was written, <<>> if none
    harvestDone,     \* resume.json was last written by the end of the harvest
    monthChanged     \* the month has changed since resume.json was written

calVars == << now_month, windows, cpc, cal_win_index, cal_resume, savedCal,
              harvestDone, monthChanged >>

\* The legacy harvester (fetch.py)
VARIABLES
    leg_pc,          \* "idle", "loop" or "done"
    end_timestamp,   \* the timestamp of end_date
    leg_block,       \* current_block
    leg_ts,          \* current_ts
    leg_files,       \* names of the CSV files written
    leg_turns        \* turns of the loop made, counted up to MaxTurns

legVars == << leg_pc, end_timestamp, leg_block, leg_ts, leg_files, leg_turns >>

\* A call of _get over the base endpoints (utils/tronscan.py)
VARIABLES
    nBases,          \* len(TRONSCAN_BASES)
    g_retries,       \* the retries argument
    g_idx,           \* idx, the position of the base in use, from 0
    g_attempt,       \* `attempt` of _get_single on that base
    g_reqs,          \* requests made to each base so far
    g_how,           \* per base: "", or why it gave {}: "exhausted", "unusable"
    g_last,          \* the answer to the last request, "none" before it
    g_ret,           \* <<>> while running, <<value>> once returned
    g_pc             \* "idle", "running" or "returned"

getVars == << nBases, g_retries, g_idx, g_attempt, g_reqs, g_how, g_last,
              g_ret, g_pc >>

\* A call of a normalizer (utils/tronscan.py)
VARIABLES
    norm_fn,         \* "transactions" or "transfers"
    raw,             \* the list passed to the normalizer
    norm,            \* the list it returned, << >> before
    norm_pc          \* "idle", "called", "returned" or "raised"

normVars == << norm_fn, raw, norm, norm_pc >>

utilVars == << blkVars, poolVars, retryVars, calVars, legVars, getVars, normVars >>

vars == << evmVars, tronVars, mergeVars, idxVars, utilVars >>

\* ----------------------------------------------------------------- helpers
None == << >>
Some(v) == << v >>
Val(o) == o[1]

MinOf(S) == CHOOSE x \in S : \A y \in S : x <= y
MaxOf(S) == CHOOSE x \in S : \A y \in S : x >= y
Min2(a, b) == IF a <= b THEN a ELSE b
Max2(a, b) == IF a >= b THEN a ELSE b

\* ------------------------------------------------------------- remote data
Top == Len(remote) - 1
Count(b) == IF b >= 0 /\ b <= Top THEN remote[b + 1] ELSE 0
RemoteRecords == { r \in (0..MaxBlock) \X (1..MaxPerBlock) :
                     r[1] <= Top /\ r[2] <= Count(r[1]) }
\* Block timestamps: strictly increasing with the block number.  Block
\* numbers and timestamps are compared as numbers (the CSV columns the code
\* compares are taken to hold what the API's decimal strings denote).
TsOf(b) == 100 + 12 * b
Boundaries == { TsOf(b) : b \in 0..MaxBlock }

\* The remote API's answer to "sort=desc, endblock=c": the first `k` records
\* at or below block c, newest block first, inside a block highest i first.
RECURSIVE PageFrom(_, _)
PageFrom(c, k) ==
    IF c < 0 \/ k = 0 THEN {}
    ELSE LET n == Count(c)
             take == Min2(n, k)
         IN  { <<c, i>> : i \in (n - take + 1)..n } \cup PageFrom(c - 1, k - take)


\* ---------------------------------------------------------- coverage index
EmptyIndex ==
    [ files  |-> {},
      global |-> [min |-> None, max |-> None],
      merged |-> [min |-> None, max |-> None, files |-> {}] ]

\* index.json missing -> empty index; otherwise the object that was dumped.
LoadIndex(d) == IF d = None THEN EmptyIndex ELSE Val(d)

\* Mutant: the lower block comes first in the name.
MakeChunkFilenameLowFirst(high, low) == << low, high >>
\* f"{high}_{low}.csv"
MakeChunkFilename(high, low) == << high, low >>

\* Both parts must be digit strings (a minus sign is not a digit); the parts
\* are returned in file-name order.
ParseBlockRange(name) ==
    IF name[1] >= 0 /\ name[2] >= 0 THEN << name[1], name[2] >> ELSE None

\* Mutant: an envelope that is already set is left alone.
UpdateIndexWithFileKeepingEnvelope(idx, name) ==
    LET rng == ParseBlockRange(name) IN
    IF rng = None THEN idx
    ELSE [ idx EXCEPT
             !.files = @ \cup {name},
             !.global = IF @.min = None
                        THEN [min |-> Some(rng[2]), max |-> Some(rng[1])]
                        ELSE @ ]

UpdateIndexWithFile(idx, name) ==
    LET rng == ParseBlockRange(name) IN
    IF rng = None THEN idx
    ELSE LET high == rng[1]
             low  == rng[2]
             gmin == idx.global.min
             gmax == idx.global.max
         IN  [ idx EXCEPT
                 !.files = @ \cup {name},
                 !.global = [ min |-> IF gmin = None THEN Some(low)
                                      ELSE Some(Min2(Val(gmin), low)),
                              max |-> IF gmax = None THEN Some(high)
                                      ELSE Some(Max2(Val(gmax), high)) ] ]

\* utils.is_block_in_index: envelope test first, then entry containment.
IsBlockInIndex(block, idx) ==
    LET gmin == idx.global.min
        gmax == idx.global.max
    IN  IF gmin = None \/ gmax = None THEN FALSE
        ELSE IF block < Val(gmin) \/ block > Val(gmax) THEN FALSE
        ELSE \E meta \in idx.files : meta[2] <= block /\ block <= meta[1]

\* Mutant: the 'max' / 'min' keys are not recognised.
ExtractRangeMinMaxUnread(entry) == None

\* fetch_eth._extract_range on a dict that has 'max' and 'min' keys (the
\* index's "global" and "merged" objects): int(None) raises and is skipped.
ExtractRangeMinMax(entry) ==
    IF entry.max # None /\ entry.min # None
    THEN << Val(entry.max), Val(entry.min) >>
    ELSE None

\* fetch_eth._extract_range on the "files" object: its keys are chunk file
\* names, none of them 'high', 'max_block', 'max', 'hi', 'low', 'min_block',
\* 'min', 'lo', 'file' or 'filename', so no range is extracted from it.
ExtractRangeFilesObject(filesObj) == None

\* fetch_eth._iter_index_entries on the index dict: index['files'] is a dict,
\* not a list, so the VALUES of the index dict are yielded, in key order
\* files, global, merged; each is handed to _extract_range.
IterIndexRanges(idx) ==
    << ExtractRangeFilesObject(idx.files),
       ExtractRangeMinMax(idx.global),
       ExtractRangeMinMax(idx.merged) >>

\* fetch_eth._covering_range: (high, low) of the first yielded range that
\* contains the block, else None.
CoveringRange(block, idx) ==
    LET rs  == IterIndexRanges(idx)
        hit == { k \in 1..Len(rs) :
                   rs[k] # None /\ rs[k][2] <= block /\ block <= rs[k][1] }
    IN  IF hit = {} THEN None ELSE rs[MinOf(hit)]

\* ------------------------------------------------------- EVM harvester
Blocks(rows) == { r[1] : r \in rows }
\* Mutant: strictly newer than the boundary.
FilterFromBoundaryStrict(rows, T) == { r \in rows : TsOf(r[1]) > T }
\* pl.col('timeStamp') >= start_ts
FilterFromBoundary(rows, T) == { r \in rows : TsOf(r[1]) >= T }

\* _fetch_batch(token, end_block) when the API answers without hard error
\* (status '1', or status '0' with "No transactions found": empty frame).
Batch(c) == PageFrom(c, limit)
\* _fetch_latest_batch: the same request without endblock.
LatestBatch == PageFrom(Top, limit)

\* df.write_csv(out_path): creates or overwrites the file.
WriteCsv(dir, name, rows) ==
    [ n \in DOMAIN dir \cup {name} |-> IF n = name THEN rows ELSE dir[n] ]

\* Runs that walked to their natural end (boundary, end of data, block 0).
Completed == { "boundary", "below_boundary", "empty", "below_zero" }

\* The block file while a program is studied.
BlkUnused ==
    /\ blkFile = << >>
    /\ blkPrev = << >>
    /\ blkLast = << >>

\* No cost lookup while a program is studied.
PoolUnused ==
    /\ hashes = << >>
    /\ max_workers = 1
    /\ ppc = "returned"
    /\ lookup = << >>
    /\ results = << >>

\* No HTTP helper call of its own while a program is studied.
RetryUnused ==
    /\ rfn = "none"
    /\ retries = 0
    /\ attempt = 0
    /\ nreq = 0
    /\ sleeps = << >>
    /\ resp = "none"
    /\ ret = None
    /\ rpc = "idle"

\* No window study while a program is studied.
CalUnused ==
    /\ now_month = 0
    /\ windows = << >>
    /\ cpc = "idle"
    /\ cal_win_index = 0
    /\ cal_resume = None
    /\ savedCal = None
    /\ harvestDone = FALSE
    /\ monthChanged = FALSE

\* No legacy harvest while a program is studied.
LegUnused ==
    /\ leg_pc = "idle"
    /\ end_timestamp = TsOf(0)
    /\ leg_block = 0
    /\ leg_ts = 0
    /\ leg_files = {}
    /\ leg_turns = 0

\* No call of _get of its own while a program is studied.
GetUnused ==
    /\ nBases = 1
    /\ g_retries = 0
    /\ g_idx = 0
    /\ g_attempt = 0
    /\ g_reqs = << >>
    /\ g_how = << >>
    /\ g_last = "none"
    /\ g_ret = None
    /\ g_pc = "idle"

\* No normalizer call of its own while a program is studied.
NormUnused ==
    /\ norm_fn = "transfers"
    /\ raw = << >>
    /\ norm = << >>
    /\ norm_pc = "idle"

UtilUnused ==
    /\ BlkUnused
    /\ PoolUnused
    /\ RetryUnused
    /\ CalUnused
    /\ LegUnused
    /\ GetUnused
    /\ NormUnused
    /\ GetUnused
    /\ NormUnused

\* The index of the persistence study while a program is studied.
IdxUnused ==
    /\ ix = EmptyIndex
    /\ ixFile = None
    /\ ixLegacy = FALSE

\* The mergers' state while a harvester is studied.
MergeUnused ==
    /\ mdir = << >>
    /\ mpc = "idle"
    /\ mindex = EmptyIndex
    /\ mdiskIndex = None
    /\ new_chunks = << >>
    /\ mi = 0
    /\ processed_files = << >>
    /\ output = << >>
    /\ legacyOut = {}
    /\ crashes = 0
    /\ once = FALSE
    /\ mergedLen = 0
    /\ twice = FALSE

\* The TRON harvester's state while only the EVM harvester is studied.
TronUnused ==
    /\ nWin = 1
    /\ nSlices = 1
    /\ tpc = "idle"
    /\ win_index = 0
    /\ slice_idx = 0
    /\ page_offset = 0
    /\ pages_in_slice = 0
    /\ resume = [win_index |-> 0, page_offset |-> 0, dup_counter |-> 0]
    /\ resumeFile = None
    /\ tronStore = {}
    /\ dupRun = 0
    /\ prevEnd = [why |-> "none", dups |-> 0]
    /\ observe = FALSE
    /\ seen = {}
    /\ again = 0
    /\ passedOnFailure = FALSE
    /\ kills = 0
    /\ winDups = 0

Init ==
    /\ remote \in [ 1..1 -> 0..MaxPerBlock ]
    /\ limit \in 1..MaxLimit
    /\ repeatable = FALSE
    /\ pc = "idle"
    /\ start_ts \in Boundaries
    /\ current_block = 0
    /\ empty_batches = 0
    /\ written = 0
    /\ index = EmptyIndex
    /\ diskIndex = None
    /\ chunks = << >>
    /\ reqs = 0
    /\ outcome = "none"
    /\ saveFailed = FALSE
    /\ rerun = FALSE
    /\ consecEmpty = 0
    /\ torn = {}
    /\ TronUnused
    /\ MergeUnused
    /\ IdxUnused
    /\ UtilUnused

\* The chain gets one more block while no harvester runs.
Mine(k) ==
    /\ pc = "idle"
    /\ Top < MaxBlock
    /\ remote' = Append(remote, k)
    /\ repeatable' = FALSE
    /\ UNCHANGED << limit, pc, start_ts, current_block, empty_batches, written,
                    index, diskIndex, chunks, reqs, outcome, saveFailed, rerun,
                    consecEmpty >>
    /\ UNCHANGED torn
    /\ UNCHANGED << tronVars, mergeVars, idxVars, utilVars >>

\* Lines 169-192: load the index, fetch the newest page, set the cursor.
StartRun ==
    /\ pc = "idle"
    /\ LatestBatch # {}
    /\ pc' = "loop"
    /\ index' = LoadIndex(diskIndex)
    /\ current_block' = MaxOf(Blocks(LatestBatch))
    /\ empty_batches' = 0
    /\ written' = 0
    /\ reqs' = 1
    /\ consecEmpty' = 0
    /\ saveFailed' = FALSE
    /\ rerun' = repeatable
    /\ repeatable' = FALSE
    /\ UNCHANGED << remote, limit, start_ts, diskIndex, chunks, outcome >>
    /\ UNCHANGED torn
    /\ UNCHANGED << tronVars, mergeVars, idxVars, utilVars >>

\* Mutant: the index that was loaded is saved before the return.
InitFetchFailedSavingIndex(apiError) ==
    /\ pc = "idle"
    /\ apiError \/ LatestBatch = {}
    /\ pc' = "done"
    /\ outcome' = "init_failed"
    /\ index' = LoadIndex(diskIndex)
    /\ diskIndex' = Some(index')
    /\ reqs' = 1
    /\ saveFailed' = FALSE
    /\ rerun' = repeatable
    /\ repeatable' = FALSE
    /\ UNCHANGED << remote, limit, start_ts, current_block, empty_batches,
                    written, chunks, consecEmpty >>
    /\ UNCHANGED torn
    /\ UNCHANGED << tronVars, mergeVars, idxVars, utilVars >>

\* Lines 176-180: the initial fetch raised (API error, or no record at all).
InitFetchFailed(apiError) ==
    /\ pc = "idle"
    /\ apiError \/ LatestBatch = {}
    /\ pc' = "done"
    /\ outcome' = "init_failed"
    /\ index' = LoadIndex(diskIndex)
    /\ reqs' = 1
    /\ saveFailed' = FALSE
    /\ rerun' = repeatable
    /\ repeatable' = FALSE
    /\ UNCHANGED << remote, limit, start_ts, current_block, empty_batches,
                    written, diskIndex, chunks, consecEmpty >>
    /\ UNCHANGED torn
    /\ UNCHANGED << tronVars, mergeVars, idxVars, utilVars >>

\* Mutant: the skip goes to the low end of the range, not below it.
SkipCoveredToLow ==
    /\ pc = "loop"
    /\ CoveringRange(current_block, index) # None
    /\ LET lo == CoveringRange(current_block, index)[2]
           next_block == lo
       IN  IF next_block < 0
           THEN /\ pc' = "done"
                /\ outcome' = "below_zero"
                /\ UNCHANGED current_block
           ELSE /\ current_block' = next_block
                /\ UNCHANGED << pc, outcome >>
    /\ reqs' = 0
    /\ UNCHANGED << remote, limit, repeatable, start_ts, empty_batches, written,
                    index, diskIndex, chunks, saveFailed, rerun,
                    consecEmpty >>
    /\ UNCHANGED torn
    /\ UNCHANGED << tronVars, mergeVars, idxVars, utilVars >>

\* Lines 195-205: the cursor lies in a covering range.
SkipCovered ==
    /\ pc = "loop"
    /\ CoveringRange(current_block, index) # None
    /\ LET lo == CoveringRange(current_block, index)[2]
           next_block == lo - 1
       IN  IF next_block < 0
           THEN /\ pc' = "done"
                /\ outcome' = "below_zero"
                /\ UNCHANGED current_block
           ELSE /\ current_block' = next_block
                /\ UNCHANGED << pc, outcome >>
    /\ reqs' = 0
    /\ UNCHANGED << remote, limit, repeatable, start_ts, empty_batches, written,
                    index, diskIndex, chunks, saveFailed, rerun,
                    consecEmpty >>
    /\ UNCHANGED torn
    /\ UNCHANGED << tronVars, mergeVars, idxVars, utilVars >>

\* Mutant: a second retry before giving up.
FetchAbortAfterTwoRetries ==
    /\ pc = "loop"
    /\ CoveringRange(current_block, index) = None
    /\ pc' = "done"
    /\ outcome' = "abort"
    /\ reqs' = 3
    /\ UNCHANGED << remote, limit, repeatable, start_ts, current_block,
                    empty_batches, written, index, diskIndex, chunks,
                    saveFailed, rerun, consecEmpty >>
    /\ UNCHANGED torn
    /\ UNCHANGED << tronVars, mergeVars, idxVars, utilVars >>

\* Lines 207-214: hard API error, and again on the single retry.
FetchAbort ==
    /\ pc = "loop"
    /\ CoveringRange(current_block, index) = None
    /\ pc' = "done"
    /\ outcome' = "abort"
    /\ reqs' = 2
    /\ UNCHANGED << remote, limit, repeatable, start_ts, current_block,
                    empty_batches, written, index, diskIndex, chunks,
                    saveFailed, rerun, consecEmpty >>
    /\ UNCHANGED torn
    /\ UNCHANGED << tronVars, mergeVars, idxVars, utilVars >>

\* Lines 215-221: empty page (hard = 1: after one hard error and the retry).
FetchEmpty(hard) ==
    /\ pc = "loop"
    /\ CoveringRange(current_block, index) = None
    /\ Batch(current_block) = {}
    /\ empty_batches' = empty_batches + 1
    /\ IF empty_batches + 1 >= MAX_EMPTY_BATCHES
       THEN /\ pc' = "done"
            /\ outcome' = "empty"
            /\ UNCHANGED current_block
       ELSE /\ current_block' = current_block - 1
            /\ UNCHANGED << pc, outcome >>
    /\ reqs' = hard + 1
    /\ consecEmpty' = consecEmpty + 1
    /\ UNCHANGED << remote, limit, repeatable, start_ts, written, index, diskIndex,
                    chunks, saveFailed, rerun >>
    /\ UNCHANGED torn
    /\ UNCHANGED << tronVars, mergeVars, idxVars, utilVars >>

\* Mutant: the trimmed, empty frame is written and recorded before the stop.
FetchBelowBoundaryWritingEmpty(hard) ==
    /\ pc = "loop"
    /\ CoveringRange(current_block, index) = None
    /\ Batch(current_block) # {}
    /\ FilterFromBoundary(Batch(current_block), start_ts) = {}
    /\ pc' = "done"
    /\ outcome' = "below_boundary"
    /\ reqs' = hard + 1
    /\ consecEmpty' = 0
    /\ chunks' = WriteCsv(chunks, MakeChunkFilename(current_block, current_block), {})
    /\ index' = UpdateIndexWithFile(index, MakeChunkFilename(current_block, current_block))
    /\ diskIndex' = Some(index')
    /\ UNCHANGED << remote, limit, repeatable, start_ts, current_block,
                    empty_batches, written, saveFailed, rerun >>
    /\ UNCHANGED torn
    /\ UNCHANGED << tronVars, mergeVars, idxVars, utilVars >>

\* Lines 223-231: the whole batch is older than the boundary.
FetchBelowBoundary(hard) ==
    /\ pc = "loop"
    /\ CoveringRange(current_block, index) = None
    /\ Batch(current_block) # {}
    /\ FilterFromBoundary(Batch(current_block), start_ts) = {}
    /\ pc' = "done"
    /\ outcome' = "below_boundary"
    /\ reqs' = hard + 1
    /\ consecEmpty' = 0
    /\ UNCHANGED << remote, limit, repeatable, start_ts, current_block,
                    empty_batches, written, index, diskIndex, chunks,
                    saveFailed, rerun >>
    /\ UNCHANGED torn
    /\ UNCHANGED << tronVars, mergeVars, idxVars, utilVars >>

\* Lines 223-262: trim, write the chunk, record it, persist, move the cursor.
\* saveOk = FALSE: save_index caught an exception and only printed a warning.
WriteChunk(hard, saveOk) ==
    /\ pc = "loop"
    /\ CoveringRange(current_block, index) = None
    /\ LET df0 == Batch(current_block)
           oldest_ts_batch == TsOf(MinOf(Blocks(df0)))
           df == IF oldest_ts_batch < start_ts
                 THEN FilterFromBoundary(df0, start_ts) ELSE df0
           lowest_block == MinOf(Blocks(df))
           filename == MakeChunkFilename(current_block, lowest_block)
       IN  /\ df0 # {}
           /\ df # {}
           /\ chunks' = WriteCsv(chunks, filename, df)
           /\ torn' = torn \ {filename}
           /\ index' = UpdateIndexWithFile(index, filename)
           /\ diskIndex' = IF saveOk THEN Some(index') ELSE diskIndex
           /\ saveFailed' = (saveFailed \/ ~saveOk)
           /\ written' = written + 1
           /\ current_block' = lowest_block - 1
           /\ IF oldest_ts_batch < start_ts
              THEN pc' = "done" /\ outcome' = "boundary"
              ELSE UNCHANGED << pc, outcome >>
    /\ reqs' = hard + 1
    /\ consecEmpty' = 0
    /\ UNCHANGED << remote, limit, repeatable, start_ts, empty_batches, rerun >>
    /\ UNCHANGED << tronVars, mergeVars, idxVars, utilVars >>

\* Lines 239-256: df.write_csv raised; the loop is left.
WriteFailed(hard) ==
    /\ pc = "loop"
    /\ CoveringRange(current_block, index) = None
    /\ Batch(current_block) # {}
    /\ FilterFromBoundary(Batch(current_block), start_ts) # {}
    /\ pc' = "done"
    /\ outcome' = "write_failed"
    /\ reqs' = hard + 1
    /\ consecEmpty' = 0
    /\ UNCHANGED << remote, limit, repeatable, start_ts, current_block,
                    empty_batches, written, index, diskIndex, chunks,
                    saveFailed, rerun >>
    /\ UNCHANGED torn
    /\ UNCHANGED << tronVars, mergeVars, idxVars, utilVars >>

\* Lines 264-266: the function returns; its locals are gone.
Exit ==
    /\ pc = "done"
    /\ pc' = "idle"
    /\ current_block' = 0
    /\ empty_batches' = 0
    /\ written' = 0
    /\ index' = EmptyIndex
    /\ reqs' = 0
    /\ consecEmpty' = 0
    /\ repeatable' = (outcome \in Completed /\ ~saveFailed)
    /\ outcome' = "none"
    /\ saveFailed' = FALSE
    /\ rerun' = FALSE
    /\ UNCHANGED << remote, limit, start_ts, diskIndex, chunks >>
    /\ UNCHANGED torn
    /\ UNCHANGED << tronVars, mergeVars, idxVars, utilVars >>

Next ==
    \/ \E k \in 0..MaxPerBlock : Mine(k)
    \/ StartRun
    \/ \E e \in BOOLEAN : InitFetchFailed(e)
    \/ SkipCovered
    \/ FetchAbort
    \/ \E h \in 0..1 : FetchEmpty(h)
    \/ \E h \in 0..1 : FetchBelowBoundary(h)
    \/ \E h \in 0..1 : WriteChunk(h, TRUE)
    \/ Exit

\* One turn of the while loop of lines 194-262.
LoopStep ==
    \/ SkipCovered
    \/ FetchAbort
    \/ \E h \in 0..1 : FetchEmpty(h)
    \/ \E h \in 0..1 : FetchBelowBoundary(h)
    \/ \E h \in 0..1 : WriteChunk(h, TRUE)

\* The envelopes an index.json may hold in its 'global' and 'merged'
\* objects: unset, or any pair of blocks.
Envelopes ==
    { [min |-> None, max |-> None] } \cup
    { [min |-> Some(a), max |-> Some(b)] : a, b \in 0..MaxBlock }

\* Index files found by a run: one left by earlier programs, with an
\* envelope in 'global' or in 'merged' (the loop reads nothing but the two
\* envelopes, see IterIndexRanges).
IndexContents ==
    { [ EmptyIndex EXCEPT !.global = g ] : g \in Envelopes } \cup
    { [ EmptyIndex EXCEPT !.merged.min = m.min, !.merged.max = m.max ] :
        m \in Envelopes }

\* One run of the harvester on any chain and any index file; the loop, once
\* entered, goes on.
TermInit ==
    /\ remote \in [ 1..(MaxBlock + 1) -> 0..MaxPerBlock ]
    /\ limit \in 1..MaxLimit
    /\ repeatable = FALSE
    /\ pc = "idle"
    /\ start_ts \in Boundaries
    /\ current_block = 0
    /\ empty_batches = 0
    /\ written = 0
    /\ index = EmptyIndex
    /\ diskIndex \in { None } \cup { Some(i) : i \in IndexContents }
    /\ chunks = << >>
    /\ reqs = 0
    /\ outcome = "none"
    /\ saveFailed = FALSE
    /\ rerun = FALSE
    /\ consecEmpty = 0
    /\ torn = {}
    /\ TronUnused
    /\ MergeUnused
    /\ IdxUnused
    /\ UtilUnused

TermNext ==
    \/ StartRun
    \/ \E e \in BOOLEAN : InitFetchFailed(e)
    \/ LoopStep

SpecTerm == TermInit /\ [][TermNext]_vars /\ WF_vars(LoopStep)

\* Lines 74-81 and 215-221: the API answers a request with no record
\* (status '1' with an empty result, or 'No transactions found') although
\* the chain holds records at or below the requested block.
FetchEmptyAnswer(hard) ==
    /\ pc = "loop"
    /\ CoveringRange(current_block, index) = None
    /\ Batch(current_block) # {}
    /\ empty_batches' = empty_batches + 1
    /\ IF empty_batches + 1 >= MAX_EMPTY_BATCHES
       THEN /\ pc' = "done"
            /\ outcome' = "empty"
            /\ UNCHANGED current_block
       ELSE /\ current_block' = current_block - 1
            /\ UNCHANGED << pc, outcome >>
    /\ reqs' = hard + 1
    /\ consecEmpty' = consecEmpty + 1
    /\ UNCHANGED << remote, limit, repeatable, start_ts, written, index, diskIndex,
                    chunks, saveFailed, rerun >>
    /\ UNCHANGED torn
    /\ UNCHANGED << tronVars, mergeVars, idxVars, utilVars >>

\* The remote API is not dependable: a page may come back empty.
EmptyAnswer == \E h \in 0..1 : FetchEmptyAnswer(h)

SpecFlaky == Init /\ [][Next \/ EmptyAnswer]_vars

\* Disk faults: write_csv raises, or save_index fails and is swallowed.
DiskFault ==
    \/ \E h \in 0..1 : WriteChunk(h, FALSE)
    \/ \E h \in 0..1 : WriteFailed(h)

Spec == Init /\ [][Next]_vars

SpecIO == Init /\ [][Next \/ DiskFault]_vars

\* Mutant: the entry is recorded and persisted before the write.
IndexOnDiskAfterCutSavedFirst(disk, idx, filename) ==
    Some(UpdateIndexWithFile(idx, filename))
\* Lines 240-243 when df.write_csv did not return: update_index_with_file
\* and save_index are not reached, index.json stays as it is.
IndexOnDiskAfterCut(disk, idx, filename) == disk

\* The process is killed: files stay, locals are gone.
Killed ==
    /\ pc' = "idle"
    /\ current_block' = 0
    /\ empty_batches' = 0
    /\ written' = 0
    /\ index' = EmptyIndex
    /\ reqs' = 0
    /\ consecEmpty' = 0
    /\ repeatable' = FALSE
    /\ outcome' = "none"
    /\ saveFailed' = FALSE
    /\ rerun' = FALSE

\* Line 240: df.write_csv created the file and stopped after the first n
\* rows (the frame is written newest record first), because it raised (kill = FALSE: line 254, the loop is left) or
\* because the process was killed (kill = TRUE).
WriteCut(hard, n, kill) ==
    /\ pc = "loop"
    /\ CoveringRange(current_block, index) = None
    /\ LET df0 == Batch(current_block)
           oldest_ts_batch == TsOf(MinOf(Blocks(df0)))
           df == IF oldest_ts_batch < start_ts
                 THEN FilterFromBoundary(df0, start_ts) ELSE df0
           lowest_block == MinOf(Blocks(df))
           filename == MakeChunkFilename(current_block, lowest_block)
           part == df \cap PageFrom(current_block, n)
       IN  /\ df0 # {}
           /\ df # {}
           /\ n < Cardinality(df)
           /\ chunks' = WriteCsv(chunks, filename, part)
           /\ torn' = torn \cup {filename}
           /\ diskIndex' = IndexOnDiskAfterCut(diskIndex, index, filename)
    /\ IF kill
       THEN Killed
       ELSE /\ pc' = "done"
            /\ outcome' = "write_failed"
            /\ reqs' = hard + 1
            /\ consecEmpty' = 0
            /\ UNCHANGED << repeatable, current_block, empty_batches, written,
                            index, saveFailed, rerun >>
    /\ UNCHANGED << remote, limit, start_ts >>
    /\ UNCHANGED << tronVars, mergeVars, idxVars, utilVars >>

\* Lines 240-242: the chunk file is written and the process is killed
\* before save_index has replaced index.json.
KilledBeforeSave ==
    /\ pc = "loop"
    /\ CoveringRange(current_block, index) = None
    /\ LET df0 == Batch(current_block)
           oldest_ts_batch == TsOf(MinOf(Blocks(df0)))
           df == IF oldest_ts_batch < start_ts
                 THEN FilterFromBoundary(df0, start_ts) ELSE df0
           lowest_block == MinOf(Blocks(df))
           filename == MakeChunkFilename(current_block, lowest_block)
       IN  /\ df0 # {}
           /\ df # {}
           /\ chunks' = WriteCsv(chunks, filename, df)
           /\ torn' = torn \ {filename}
    /\ Killed
    /\ UNCHANGED << remote, limit, start_ts, diskIndex >>
    /\ UNCHANGED << tronVars, mergeVars, idxVars, utilVars >>

\* The process is killed at any other step of a run.
KilledElsewhere ==
    /\ pc \in {"loop", "done"}
    /\ Killed
    /\ UNCHANGED << remote, limit, start_ts, diskIndex, chunks, torn >>
    /\ UNCHANGED << tronVars, mergeVars, idxVars, utilVars >>

Crash ==
    \/ \E h \in 0..1, n \in 0..MaxLimit, k \in BOOLEAN : WriteCut(h, n, k)
    \/ KilledBeforeSave
    \/ KilledElsewhere

\* Lines 207 and 211: requests.get raised inside _etherscan_get (connection
\* error, timeout), on the request (hard = 0) or on the single retry after a
\* hard API error (hard = 1).  Neither _etherscan_get nor _fetch_batch nor
\* the loop catches it: it leaves fetch_and_save_transactions.
FetchRaised(hard) ==
    /\ pc = "loop"
    /\ CoveringRange(current_block, index) = None
    /\ pc' = "done"
    /\ outcome' = "uncaught"
    /\ reqs' = hard + 1
    /\ UNCHANGED << remote, limit, repeatable, start_ts, current_block,
                    empty_batches, written, index, diskIndex, chunks,
                    saveFailed, rerun, consecEmpty, torn >>
    /\ UNCHANGED << tronVars, mergeVars, idxVars, utilVars >>

NetFault == \E h \in 0..1 : FetchRaised(h)

\* The EVM harvester on a network that can fail.
SpecNet == Init /\ [][Next \/ NetFault]_vars

\* The EVM harvester with cut chunk writes and kills at any step.
SpecCrash == Init /\ [][Next \/ Crash]_vars

\* =====================================================================
\* TRON harvester (fetch_tron.py, harvest_simple)
\* =====================================================================
\* A raw record of a page is its transaction id; a page is the set of ids
\* it returns, together with whether any of its records has a timestamp
\* the normalizer can read.  The service is free to answer any page to any
\* request (its pagination is not stable), so the page is an input of the
\* step that fetches it.  The statistics kept next to the resume position
\* (total_saved, existing_blocks, data_source, updated) steer nothing and
\* are left out.

Tids == 1..MaxTx
Pages == { ids \in SUBSET Tids : ids # {} /\ Cardinality(ids) <= PAGE_LIMIT }

\* resume.json after a write that was cut short: json.load raises on it.
TornFile == << [torn |-> TRUE] >>

\* _load_resume, then resume.get(key, 0) for the keys the harvester reads:
\* no file, or a file that does not parse, gives {}.
LoadResume(f) ==
    IF f = None \/ f = TornFile
    THEN [win_index |-> 0, page_offset |-> 0, dup_counter |-> 0]
    ELSE Val(f)

\* The EVM harvester's state while only the TRON harvester is studied.
EvmUnused ==
    /\ remote = << 0 >>
    /\ limit = 1
    /\ repeatable = FALSE
    /\ pc = "idle"
    /\ start_ts = TsOf(0)
    /\ current_block = 0
    /\ empty_batches = 0
    /\ written = 0
    /\ index = EmptyIndex
    /\ diskIndex = None
    /\ chunks = << >>
    /\ reqs = 0
    /\ outcome = "none"
    /\ saveFailed = FALSE
    /\ rerun = FALSE
    /\ consecEmpty = 0
    /\ torn = {}

TronStartState(obs) ==
    /\ EvmUnused
    /\ MergeUnused
    /\ IdxUnused
    /\ nWin \in 1..MaxWindows
    /\ nSlices \in 1..MaxSlices
    /\ tpc = "idle"
    /\ win_index = 0
    /\ slice_idx = 0
    /\ page_offset = 0
    /\ pages_in_slice = 0
    /\ resume = LoadResume(None)
    /\ resumeFile = None
    /\ tronStore = {}
    /\ dupRun = 0
    /\ prevEnd = [why |-> "none", dups |-> 0]
    /\ observe = obs
    /\ seen = {}
    /\ again = 0
    /\ passedOnFailure = FALSE
    /\ kills = 0
    /\ winDups = 0
    /\ UtilUnused

TronInit == TronStartState(FALSE)

\* One window, every number of slices, requests recorded.
TronObservedInit == TronStartState(TRUE) /\ nWin = 1

\* Line 270: the function returns; its locals are gone.
TronReturn ==
    /\ tpc' = "idle"
    /\ slice_idx' = 0
    /\ pages_in_slice' = 0

\* Lines 159-175: enter window w (if there is one) at its first slice.
EnterWindow(w) ==
    IF w < nWin
    THEN /\ tpc' = "page"
         /\ slice_idx' = 0
         /\ pages_in_slice' = 0
    ELSE TronReturn

\* Lines 259-269: a break left the page loop of the current slice with
\* resume['dup_counter'] = d.  The offset is reset; the next slice starts,
\* or the window is finished, which is persisted, and the next one starts.
EndSlice(d, why, dups) ==
    /\ page_offset' = 0
    /\ dupRun' = 0
    /\ prevEnd' = [why |-> why, dups |-> dups]
    /\ IF slice_idx + 1 < nSlices
       THEN /\ slice_idx' = slice_idx + 1
            /\ pages_in_slice' = 0
            /\ resume' = [resume EXCEPT !.dup_counter = d]
            /\ UNCHANGED << tpc, win_index, resumeFile >>
       ELSE /\ win_index' = win_index + 1
            /\ resume' = [win_index |-> win_index + 1, page_offset |-> 0,
                          dup_counter |-> d]
            /\ resumeFile' = Some(resume')
            /\ EnterWindow(win_index + 1)

\* winDups after a stored page with the ids `ids`.
WinDupsWith(ids) ==
    IF ids \subseteq tronStore THEN Min2(winDups + 1, DUP_PAGES_BREAK) ELSE 0

\* winDups after a step that ends the slice: w, or 0 when the window ends too.
WinDupsAtEnd(w) == winDups' = IF slice_idx + 1 < nSlices THEN w ELSE 0

\* Lines 139-159: load the resume file and enter the window it names.
TronStart ==
    /\ tpc = "idle"
    /\ resume' = LoadResume(resumeFile)
    /\ win_index' = resume'.win_index
    /\ page_offset' = resume'.page_offset
    /\ EnterWindow(resume'.win_index)
    /\ dupRun' = 0
    /\ prevEnd' = [why |-> "none", dups |-> 0]
    /\ UNCHANGED << nWin, nSlices, resumeFile, tronStore, observe, seen,
                    again, passedOnFailure, kills, winDups >>
    /\ UNCHANGED << evmVars, mergeVars, idxVars, utilVars >>

\* Lines 183-185: the page is empty.
TronPageEmpty ==
    /\ tpc = "page"
    /\ EndSlice(resume.dup_counter, "empty", dupRun)
    /\ WinDupsAtEnd(winDups)
    /\ UNCHANGED << nWin, nSlices, tronStore, observe, seen, again,
                    passedOnFailure,
                    kills >>
    /\ UNCHANGED << evmVars, mergeVars, idxVars, utilVars >>

\* Lines 186-194: the page has records, none with a readable timestamp.
TronPageSkipped ==
    /\ tpc = "page"
    /\ pages_in_slice < MAX_PAGES_PER_WINDOW + MaxSkipped
    /\ pages_in_slice' = pages_in_slice + 1
    /\ page_offset' = page_offset + PAGE_LIMIT
    /\ UNCHANGED << nWin, nSlices, tpc, win_index, slice_idx, resume,
                    resumeFile, tronStore, dupRun, prevEnd, observe, seen,
                    again, passedOnFailure,
                    kills, winDups >>
    /\ UNCHANGED << evmVars, mergeVars, idxVars, utilVars >>

\* The request of the page loop: window, slice and offset.
Request == << win_index, slice_idx, page_offset >>

\* The page of the request is stored: note the request, count a repeat.
Recorded ==
    IF observe
    THEN /\ seen' = seen \cup { Request }
         /\ again' = IF Request \in seen THEN Min2(again + 1, MaxAgain)
                      ELSE again
    ELSE UNCHANGED << seen, again >>

\* Mutant: the duplicate limit must be exceeded, not reached.
DupLimitExceeded(d) == d > DUP_PAGES_BREAK
\* Line 234.
DupLimitReached(d) == d >= DUP_PAGES_BREAK

\* Lines 186-258: the page is stored block by block (_write_block_records
\* drops ids the block file already holds), then the duplicate counter, the
\* page cap and the short page are tested in this order; a full page that
\* passes all three moves the offset and persists the resume position.
TronPageStored(ids) ==
    /\ tpc = "page"
    /\ pages_in_slice < MAX_PAGES_PER_WINDOW + MaxSkipped
    /\ tronStore' = tronStore \cup ids
    /\ Recorded
    /\ LET new_tx_count == Cardinality(ids \ tronStore)
           dup_counter == IF new_tx_count = 0
                          THEN resume.dup_counter + 1 ELSE 0
           run == IF new_tx_count = 0 THEN dupRun + 1 ELSE 0
       IN  IF DupLimitReached(dup_counter)
           THEN EndSlice(dup_counter, "dup", run) /\ WinDupsAtEnd(WinDupsWith(ids))
           ELSE IF pages_in_slice + 1 >= MAX_PAGES_PER_WINDOW
           THEN EndSlice(dup_counter, "cap", run) /\ WinDupsAtEnd(WinDupsWith(ids))
           ELSE IF Cardinality(ids) < PAGE_LIMIT
           THEN EndSlice(dup_counter, "short", run) /\ WinDupsAtEnd(WinDupsWith(ids))
           ELSE /\ pages_in_slice' = pages_in_slice + 1
                /\ page_offset' = page_offset + PAGE_LIMIT
                /\ resume' = [win_index |-> win_index,
                              page_offset |-> page_offset + PAGE_LIMIT,
                              dup_counter |-> dup_counter]
                /\ resumeFile' = Some(resume')
                /\ dupRun' = run
                /\ winDups' = WinDupsWith(ids)
                /\ UNCHANGED << tpc, win_index, slice_idx, prevEnd >>
    /\ UNCHANGED << nWin, nSlices, observe, passedOnFailure,
                    kills >>
    /\ UNCHANGED << evmVars, mergeVars, idxVars, utilVars >>

\* The process is stopped between two pages; files stay, locals are gone.
TronInterrupt ==
    /\ tpc = "page"
    /\ TronReturn
    /\ win_index' = 0
    /\ page_offset' = 0
    /\ resume' = LoadResume(None)
    /\ dupRun' = 0
    /\ prevEnd' = [why |-> "none", dups |-> 0]
    /\ UNCHANGED << nWin, nSlices, resumeFile, tronStore, observe, seen,
                    again, passedOnFailure, kills, winDups >>
    /\ UNCHANGED << evmVars, mergeVars, idxVars, utilVars >>

TronNext ==
    \/ TronStart
    \/ TronPageEmpty
    \/ TronPageSkipped
    \/ \E ids \in Pages : TronPageStored(ids)
    \/ TronInterrupt

SpecTron == TronInit /\ [][TronNext]_vars

\* The process is killed: files stay, locals are gone.
TronKilled ==
    /\ TronReturn
    /\ win_index' = 0
    /\ page_offset' = 0
    /\ resume' = LoadResume(None)
    /\ dupRun' = 0
    /\ prevEnd' = [why |-> "none", dups |-> 0]

\* Lines 186-225, then killed before any _save_resume: the page is in the
\* block files, the resume file is as it was.
TronKilledAfterStore(ids) ==
    /\ tpc = "page"
    /\ kills < MaxKills
    /\ kills' = kills + 1
    /\ pages_in_slice < MAX_PAGES_PER_WINDOW + MaxSkipped
    /\ tronStore' = tronStore \cup ids
    /\ Recorded
    /\ winDups' = WinDupsWith(ids)
    /\ TronKilled
    /\ UNCHANGED << nWin, nSlices, resumeFile, observe, passedOnFailure >>
    /\ UNCHANGED << evmVars, mergeVars, idxVars, utilVars >>

\* Lines 186-257 for a full page that ends nothing, killed inside
\* _save_resume after open(RESUME_FILE, 'w') has emptied the file and before
\* json.dump has written all of it.
TronKilledInPageSave(ids) ==
    /\ tpc = "page"
    /\ Cardinality(ids) = PAGE_LIMIT
    /\ pages_in_slice + 1 < MAX_PAGES_PER_WINDOW
    /\ ~ DupLimitReached(IF ids \subseteq tronStore
                         THEN resume.dup_counter + 1 ELSE 0)
    /\ tronStore' = tronStore \cup ids
    /\ Recorded
    /\ winDups' = WinDupsWith(ids)
    /\ resumeFile' = TornFile
    /\ TronKilled
    /\ UNCHANGED << nWin, nSlices, observe, passedOnFailure,
                    kills >>
    /\ UNCHANGED << evmVars, mergeVars, idxVars, utilVars >>

\* Lines 183-185 and 259-269 in the last slice of a window, killed inside
\* the _save_resume of line 269.
TronKilledInWindowSave ==
    /\ tpc = "page"
    /\ slice_idx + 1 >= nSlices
    /\ resumeFile' = TornFile
    /\ winDups' = 0
    /\ TronKilled
    /\ UNCHANGED << nWin, nSlices, tronStore, observe, seen, again,
                    passedOnFailure,
                    kills >>
    /\ UNCHANGED << evmVars, mergeVars, idxVars, utilVars >>

\* tronscan._get: every endpoint failed on every retry and {} is returned;
\* fetch_trc20_transfers_page turns it into [], which lines 183-185 take for
\* an empty page.
TronPageFailed ==
    /\ tpc = "page"
    /\ EndSlice(resume.dup_counter, "empty", dupRun)
    /\ WinDupsAtEnd(winDups)
    /\ passedOnFailure' = (passedOnFailure \/ slice_idx + 1 >= nSlices)
    /\ UNCHANGED << nWin, nSlices, tronStore, observe, seen, again, kills >>
    /\ UNCHANGED << evmVars, mergeVars, idxVars, utilVars >>

TronFault ==
    \/ \E ids \in Pages : TronKilledInPageSave(ids)
    \/ TronKilledInWindowSave
    \/ TronPageFailed

\* The TRON harvester with kills inside _save_resume and failed fetches.
SpecTronFault == TronInit /\ [][TronNext \/ TronFault]_vars

\* The TRON harvester killed up to MaxKills times between storing a page and
\* saving the resume position, with repeated requests recorded.
TronRestartNext ==
    \/ TronStart
    \/ TronPageEmpty
    \/ TronPageSkipped
    \/ \E ids \in Pages : TronPageStored(ids)
    \/ \E ids \in Pages : TronKilledAfterStore(ids)

SpecTronRestart == TronObservedInit /\ [][TronRestartNext]_vars

\* =====================================================================
\* Mergers (merge_eth.py, merge.py)
\* =====================================================================
\* A row of a chunk file is <<hash, e>>: the transfer's hash (here the block
\* that holds it, one transfer per block) and e, the value of the columns
\* that depend on when the page was fetched ('confirmations').  A chunk file
\* named high_low that was fetched at time e holds the rows of the blocks
\* high down to low; `ok` tells whether it has all STANDARD_COLUMNS.

ChunkNames == { n \in (0..MaxChunkBlock) \X (0..MaxChunkBlock) : n[2] <= n[1] }

RECURSIVE RowsDown(_, _, _)
RowsDown(high, low, e) ==
    IF high < low THEN << >>
    ELSE << << high, e >> >> \o RowsDown(high - 1, low, e)

\* pl.read_csv(file).select(STANDARD_COLUMNS)
ReadChunk(dir, name) == RowsDown(name[1], name[2], dir[name].e)

\* candidates.sort(reverse=True): by high, then low, descending.
NameAfter(a, b) == a[1] > b[1] \/ (a[1] = b[1] /\ a[2] > b[2])
RECURSIVE SortedDesc(_)
SortedDesc(S) ==
    IF S = {} THEN << >>
    ELSE LET top == CHOOSE a \in S : \A b \in S \ {a} : NameAfter(a, b)
         IN  << top >> \o SortedDesc(S \ {top})

\* _iter_new_chunk_files: chunk files of the directory not yet marked merged.
IterNewChunkFiles(dir, idx) ==
    SortedDesc({ n \in DOMAIN dir :
                   n \notin idx.merged.files /\ ParseBlockRange(n) # None })

Elems(seq) == { seq[k] : k \in 1..Len(seq) }

\* Mutant: the merged envelope is that of the names of this call alone.
MarkFilesMergedReplacing(idx, filenames) ==
    IF filenames = << >> THEN idx
    ELSE LET names == Elems(filenames)
             known == names \cap idx.files
         IN  [ idx EXCEPT
                 !.merged = [ min |-> IF known = {} THEN @.min
                                      ELSE Some(MinOf({ n[2] : n \in known })),
                              max |-> IF known = {} THEN @.max
                                      ELSE Some(MaxOf({ n[1] : n \in known })),
                              files |-> @.files \cup names ] ]

\* utils.mark_files_merged
MarkFilesMerged(idx, filenames) ==
    IF filenames = << >> THEN idx
    ELSE LET names == Elems(filenames)
             known == names \cap idx.files
             lows  == { n[2] : n \in known }
             highs == { n[1] : n \in known }
             cur_min == idx.merged.min
             cur_max == idx.merged.max
         IN  [ idx EXCEPT
                 !.merged = [ min |-> IF known = {} THEN cur_min
                                      ELSE IF cur_min = None
                                      THEN Some(MinOf(lows))
                                      ELSE Some(Min2(Val(cur_min), MinOf(lows))),
                              max |-> IF known = {} THEN cur_max
                                      ELSE IF cur_max = None
                                      THEN Some(MaxOf(highs))
                                      ELSE Some(Max2(Val(cur_max), MaxOf(highs))),
                              files |-> @.files \cup names ] ]

\* utils.append_dataframe: the rows go after whatever the file holds (the
\* file is created with the header when it does not exist).
AppendDataframe(rows, file) == file \o rows

MergeInit ==
    /\ EvmUnused
    /\ TronUnused
    /\ MergeUnused
    /\ IdxUnused
    /\ UtilUnused

\* A harvester writes a chunk file of a new name into the directory while
\* no merger runs.
AddChunk(name, e, ok) ==
    /\ mpc = "idle"
    /\ name \notin DOMAIN mdir
    /\ mdir' = WriteCsv(mdir, name, [e |-> e, ok |-> ok])
    /\ once' = FALSE
    /\ mergedLen' = 0
    /\ twice' = FALSE
    /\ UNCHANGED << mpc, mindex, mdiskIndex, new_chunks, mi, processed_files,
                    output, legacyOut, crashes >>
    /\ UNCHANGED << evmVars, tronVars, idxVars, utilVars >>

\* merge_csv_files returns; its locals are gone.  A run that completes on
\* the directory a completed run has already seen is a repeated merge.
MergeReturn ==
    /\ mpc' = "idle"
    /\ mindex' = EmptyIndex
    /\ new_chunks' = << >>
    /\ mi' = 0
    /\ processed_files' = << >>
    /\ once' = TRUE
    /\ twice' = once
    /\ mergedLen' = IF once THEN mergedLen ELSE Len(output')

\* merge_eth lines 40-58: load the index, list the chunk files not marked
\* merged; with none the function returns at once.
MergeStart ==
    /\ mpc = "idle"
    /\ LET idx == LoadIndex(mdiskIndex)
           cands == IterNewChunkFiles(mdir, idx)
       IN  IF cands = << >>
           THEN /\ output' = output
                /\ MergeReturn
           ELSE /\ mpc' = "loop"
                /\ mindex' = idx
                /\ new_chunks' = cands
                /\ mi' = 1
                /\ processed_files' = << >>
                /\ UNCHANGED << output, once, mergedLen, twice >>
    /\ UNCHANGED << mdir, mdiskIndex, legacyOut, crashes >>
    /\ UNCHANGED << evmVars, tronVars, idxVars, utilVars >>

\* Lines 60-82, a chunk with all columns: append its rows, note the file,
\* record its range; after every BATCH_SAVE_INTERVAL-th candidate mark the
\* noted files merged and save the index.
MergeAppend ==
    /\ mpc = "loop"
    /\ mi <= Len(new_chunks)
    /\ mdir[new_chunks[mi]].ok
    /\ LET name == new_chunks[mi]
           noted == Append(processed_files, name)
           idx == UpdateIndexWithFile(mindex, name)
       IN  /\ output' = AppendDataframe(ReadChunk(mdir, name), output)
           /\ IF mi % BATCH_SAVE_INTERVAL = 0
              THEN /\ mindex' = MarkFilesMerged(idx, noted)
                   /\ mdiskIndex' = Some(mindex')
                   /\ processed_files' = << >>
              ELSE /\ mindex' = idx
                   /\ processed_files' = noted
                   /\ UNCHANGED mdiskIndex
    /\ mi' = mi + 1
    /\ UNCHANGED << mdir, mpc, new_chunks, legacyOut, crashes, once,
                    mergedLen, twice >>
    /\ UNCHANGED << evmVars, tronVars, idxVars, utilVars >>

\* Mutant: the file that is passed over is noted as processed.
MergeSkipNotingFile ==
    /\ mpc = "loop"
    /\ mi <= Len(new_chunks)
    /\ ~ mdir[new_chunks[mi]].ok
    /\ mi' = mi + 1
    /\ processed_files' = Append(processed_files, new_chunks[mi])
    /\ UNCHANGED << mdir, mpc, mindex, mdiskIndex, new_chunks,
                    output, legacyOut, crashes, once, mergedLen, twice >>
    /\ UNCHANGED << evmVars, tronVars, idxVars, utilVars >>

\* Lines 63-67: a chunk that lacks a standard column is passed over; the
\* `continue` also passes over the intermediate save.
MergeSkip ==
    /\ mpc = "loop"
    /\ mi <= Len(new_chunks)
    /\ ~ mdir[new_chunks[mi]].ok
    /\ mi' = mi + 1
    /\ UNCHANGED << mdir, mpc, mindex, mdiskIndex, new_chunks, processed_files,
                    output, legacyOut, crashes, once, mergedLen, twice >>
    /\ UNCHANGED << evmVars, tronVars, idxVars, utilVars >>

\* Lines 84-89: the final save of the files noted since the last save.
MergeFinish ==
    /\ mpc = "loop"
    /\ mi > Len(new_chunks)
    /\ IF processed_files # << >>
       THEN mdiskIndex' = Some(MarkFilesMerged(mindex, processed_files))
       ELSE UNCHANGED mdiskIndex
    /\ output' = output
    /\ MergeReturn
    /\ UNCHANGED << mdir, legacyOut, crashes >>
    /\ UNCHANGED << evmVars, tronVars, idxVars, utilVars >>

\* The merger is killed inside the loop; files stay, locals are gone.
MergeCrash ==
    /\ mpc = "loop"
    /\ crashes < MaxCrashes
    /\ crashes' = crashes + 1
    /\ mpc' = "idle"
    /\ mindex' = EmptyIndex
    /\ new_chunks' = << >>
    /\ mi' = 0
    /\ processed_files' = << >>
    /\ UNCHANGED << mdir, mdiskIndex, output, legacyOut, once, mergedLen,
                    twice >>
    /\ UNCHANGED << evmVars, tronVars, idxVars, utilVars >>

\* merge.py: read every chunk file, concatenate, unique() on whole rows,
\* overwrite the output.  (A file lacking a column makes select raise and
\* nothing is written; with no file nothing is written either.)
LegacyMerge ==
    /\ mpc = "idle"
    /\ DOMAIN mdir # {}
    /\ \A n \in DOMAIN mdir : mdir[n].ok
    /\ legacyOut' = UNION { Elems(ReadChunk(mdir, n)) : n \in DOMAIN mdir }
    /\ UNCHANGED << mdir, mpc, mindex, mdiskIndex, new_chunks, mi,
                    processed_files, output, crashes, once, mergedLen, twice >>
    /\ UNCHANGED << evmVars, tronVars, idxVars, utilVars >>

MergeNext ==
    \/ \E name \in ChunkNames, e \in 0..MaxEpoch : AddChunk(name, e, TRUE)
    \/ \E name \in ChunkNames : AddChunk(name, 0, FALSE)
    \/ MergeStart
    \/ MergeAppend
    \/ MergeSkip
    \/ MergeFinish
    \/ MergeCrash
    \/ LegacyMerge

SpecMerge == MergeInit /\ [][MergeNext]_vars

\* A directory of MaxBatchChunks one-block chunk files, each with or without
\* all STANDARD_COLUMNS, that does not change while merge runs follow one
\* another.
BatchDirs ==
    [ { << b, b >> : b \in 0..(MaxBatchChunks - 1) } ->
        { [e |-> 0, ok |-> TRUE], [e |-> 0, ok |-> FALSE] } ]

MergeBatchInit ==
    /\ EvmUnused
    /\ TronUnused
    /\ IdxUnused
    /\ mdir \in BatchDirs
    /\ mpc = "idle"
    /\ mindex = EmptyIndex
    /\ mdiskIndex = None
    /\ new_chunks = << >>
    /\ mi = 0
    /\ processed_files = << >>
    /\ output = << >>
    /\ legacyOut = {}
    /\ crashes = 0
    /\ once = FALSE
    /\ mergedLen = 0
    /\ twice = FALSE
    /\ UtilUnused

MergeBatchNext ==
    \/ MergeStart
    \/ MergeAppend
    \/ MergeSkip
    \/ MergeFinish

SpecMergeBatch == MergeBatchInit /\ [][MergeBatchNext]_vars

\* =====================================================================
\* Index persistence (utils.py: load_index, save_index)
\* =====================================================================
\* The content of index.json is a JSON document, modelled by what the code
\* reads of it: whether the top-level object has a 'files' key, the object
\* of chunk entries (name -> {high, low}: the value of 'files', or the whole
\* document in the legacy flat form), and the 'global' and 'merged' members
\* (absent in the legacy form).  The order of an object's members is not
\* modelled; a JSON array is a sequence.

IdxNames == (0..MaxIdxBlock) \X (0..MaxIdxBlock)

\* sorted(merged_set), as a sequence
RECURSIVE SortedAsc(_)
SortedAsc(S) ==
    IF S = {} THEN << >>
    ELSE LET low == CHOOSE a \in S : \A b \in S \ {a} : NameAfter(b, a)
         IN  << low >> \o SortedAsc(S \ {low})

\* json.dump(index, f, indent=2)
DumpIndex(idx) ==
    [ hasFiles |-> TRUE,
      entries  |-> [ n \in idx.files |-> [high |-> n[1], low |-> n[2]] ],
      global   |-> Some(idx.global),
      merged   |-> Some([ min   |-> idx.merged.min,
                          max   |-> idx.merged.max,
                          files |-> SortedAsc(idx.merged.files) ]) ]

\* A legacy flat map: chunk name -> {high, low}, nothing else.
LegacyDoc(names) ==
    [ hasFiles |-> FALSE,
      entries  |-> [ n \in names |-> [high |-> n[1], low |-> n[2]] ],
      global   |-> None,
      merged   |-> None ]

\* Mutant: a document without a 'files' key is rejected.
ParseIndexRejectingFlat(doc) ==
    IF ~ doc.hasFiles THEN EmptyIndex
    ELSE [ files  |-> DOMAIN doc.entries,
           global |-> Val(doc.global),
           merged |-> [ min |-> Val(doc.merged).min,
                        max |-> Val(doc.merged).max,
                        files |-> Elems(Val(doc.merged).files) ] ]

\* load_index lines 32-46 on the parsed document.
ParseIndex(doc) ==
    IF ~ doc.hasFiles
    THEN LET lows  == { doc.entries[n].low  : n \in DOMAIN doc.entries }
             highs == { doc.entries[n].high : n \in DOMAIN doc.entries }
         IN  [ files  |-> DOMAIN doc.entries,
               global |-> [ min |-> IF lows = {} THEN None
                                    ELSE Some(MinOf(lows)),
                            max |-> IF highs = {} THEN None
                                    ELSE Some(MaxOf(highs)) ],
               merged |-> [min |-> None, max |-> None, files |-> {}] ]
    ELSE [ files  |-> DOMAIN doc.entries,
           global |-> IF doc.global = None THEN [min |-> None, max |-> None]
                      ELSE Val(doc.global),
           merged |-> IF doc.merged = None
                      THEN [min |-> None, max |-> None, files |-> {}]
                      ELSE [ min |-> Val(doc.merged).min,
                             max |-> Val(doc.merged).max,
                             files |-> Elems(Val(doc.merged).files) ] ]

\* load_index: no file -> empty index.
LoadIndexFile(f) == IF f = None THEN EmptyIndex ELSE ParseIndex(Val(f))

\* update_index_with_file for every name of a set, from the index idx.
RECURSIVE BuildFrom(_, _)
BuildFrom(idx, names) ==
    IF names = {} THEN idx
    ELSE LET n == CHOOSE x \in names : TRUE
         IN  BuildFrom(UpdateIndexWithFile(idx, n), names \ {n})

IdxInit ==
    /\ EvmUnused
    /\ TronUnused
    /\ MergeUnused
    /\ ix = EmptyIndex
    /\ ixFile \in {None} \cup { Some(LegacyDoc(S)) : S \in SUBSET IdxNames }
    /\ ixLegacy = FALSE
    /\ UtilUnused

\* index = load_index(INDEX_PATH)
IxLoad ==
    /\ ix' = LoadIndexFile(ixFile)
    /\ ixLegacy' = (ixLegacy \/ (ixFile # None /\ ~ Val(ixFile).hasFiles))
    /\ UNCHANGED ixFile
    /\ UNCHANGED << evmVars, tronVars, mergeVars, utilVars >>

\* index = update_index_with_file(index, filename)
IxUpdate(name) ==
    /\ ix' = UpdateIndexWithFile(ix, name)
    /\ UNCHANGED << ixFile, ixLegacy >>
    /\ UNCHANGED << evmVars, tronVars, mergeVars, utilVars >>

\* index = mark_files_merged(index, processed_files), the names being
\* recorded ones as in merge_eth.py (lines 71-79).
IxMark(names) ==
    /\ names \subseteq ix.files
    /\ ix' = MarkFilesMerged(ix, SortedDesc(names))
    /\ UNCHANGED << ixFile, ixLegacy >>
    /\ UNCHANGED << evmVars, tronVars, mergeVars, utilVars >>

\* save_index(INDEX_PATH, index)
IxSave ==
    /\ ixFile' = Some(DumpIndex(ix))
    /\ UNCHANGED << ix, ixLegacy >>
    /\ UNCHANGED << evmVars, tronVars, mergeVars, utilVars >>

IdxNext ==
    \/ IxLoad
    \/ \E name \in IdxNames : IxUpdate(name)
    \/ \E names \in SUBSET IdxNames : IxMark(names)
    \/ IxSave

SpecIndex == IdxInit /\ [][IdxNext]_vars

\* =====================================================================
\* A TRON block file (fetch_tron.py: _write_block_records)
\* =====================================================================
\* A raw record is [id, ts, at]: its transaction id (NoId when it has
\* neither 'transaction_id' nor 'hash'), the timestamp the sort reads, and
\* the time it was retrieved (a record fetched twice differs in it).

\* The value of `tid` for a record without an id.
NoId == 0
BlkRecords == [ id : {NoId} \cup 1..MaxIds, ts : 1..MaxTs, at : 0..MaxEpoch ]

RECURSIVE SeqsUpTo(_, _)
SeqsUpTo(S, n) ==
    IF n = 0 THEN { << >> }
    ELSE LET shorter == SeqsUpTo(S, n - 1)
         IN  shorter \cup { Append(q, x) : q \in shorter, x \in S }

IdsOf(seq) == { seq[k].id : k \in 1..Len(seq) } \ {NoId}

\* Mutant: a record goes before the records of its own timestamp and after
\* the newer ones only when it is older.
InsertOldestFirst(seq, r) ==
    LET older == SelectSeq(seq, LAMBDA x : x.ts < r.ts)
        rest == SelectSeq(seq, LAMBDA x : x.ts >= r.ts)
    IN  older \o << r >> \o rest
\* One step of the stable sort of line 87: r goes after every record that
\* is as new or newer.
RECURSIVE InsertNewestFirst(_, _)
InsertNewestFirst(seq, r) ==
    IF seq = << >> THEN << r >>
    ELSE IF Head(seq).ts >= r.ts
    THEN << Head(seq) >> \o InsertNewestFirst(Tail(seq), r)
    ELSE << r >> \o seq

\* existing.sort(key=timestamp, reverse=True): stable, newest first.
RECURSIVE SortNewestFirst(_)
SortNewestFirst(seq) ==
    IF seq = << >> THEN << >>
    ELSE InsertNewestFirst(SortNewestFirst(SubSeq(seq, 1, Len(seq) - 1)),
                           seq[Len(seq)])

\* Lines 77-84: append the records whose id is not seen yet.
RECURSIVE AppendUnseen(_, _)
AppendUnseen(existing, records) ==
    IF records = << >> THEN existing
    ELSE LET r == Head(records)
         IN  IF r.id # NoId /\ r.id \in IdsOf(existing)
             THEN AppendUnseen(existing, Tail(records))
             ELSE AppendUnseen(Append(existing, r), Tail(records))

\* _write_block_records: nothing is written when nothing was appended.
WriteBlockRecords(file, records) ==
    LET existing == AppendUnseen(file, records)
    IN  IF Len(existing) > Len(file) THEN SortNewestFirst(existing) ELSE file

BlkInit ==
    /\ EvmUnused
    /\ TronUnused
    /\ MergeUnused
    /\ IdxUnused
    /\ BlkUnused
    /\ PoolUnused
    /\ RetryUnused
    /\ CalUnused
    /\ LegUnused
    /\ GetUnused
    /\ NormUnused

\* One call for the block; the harvester passes the raw records of a page
\* that lie in the block.
WriteBlock(records) ==
    LET rewritten == WriteBlockRecords(blkFile, records)
    IN  /\ Len(rewritten) <= MaxFileLen
        /\ blkPrev' = blkFile
        /\ blkLast' = records
        /\ blkFile' = rewritten
        /\ UNCHANGED << evmVars, tronVars, mergeVars, idxVars, poolVars, retryVars, calVars, legVars,
                    getVars, normVars >>

BlkNext == \E records \in SeqsUpTo(BlkRecords, MaxWrite) : WriteBlock(records)

SpecBlock == BlkInit /\ [][BlkNext]_vars

\* =====================================================================
\* Cost lookups (utils/tronscan.py: fetch_tx_cost, fetch_costs_parallel)
\* =====================================================================
Hashes == 1..MaxHash

\* What one fetch_tx_cost call does: it returns the cost fields ("ok"); it
\* returns the placeholder because _get brought nothing ("failed"); or it
\* raises, as data.get and cost.get do on a payload that is not an object
\* ("raised").
LookupOutcomes == { "ok", "failed", "raised" }

\* Calls up to this number of distinct hashes are made one after the other.
SEQUENTIAL_MAX == 3

\* [h for h in dict.fromkeys(hashes)]: first occurrences, in order.
RECURSIVE Distinct(_)
Distinct(seq) ==
    IF seq = << >> THEN << >>
    ELSE LET front == Distinct(SubSeq(seq, 1, Len(seq) - 1))
             h == seq[Len(seq)]
         IN  IF \E k \in 1..Len(front) : front[k] = h THEN front
             ELSE Append(front, h)

Range(seq) == { seq[k] : k \in 1..Len(seq) }

InFlight == { h \in Hashes : lookup[h] = "running" }

\* The result stored for a lookup that ended with `how`.
ResultOf(how) == IF how = "ok" THEN "cost" ELSE "pending"

PoolInit ==
    /\ EvmUnused
    /\ TronUnused
    /\ MergeUnused
    /\ IdxUnused
    /\ BlkUnused
    /\ RetryUnused
    /\ CalUnused
    /\ LegUnused
    /\ GetUnused
    /\ NormUnused
    /\ hashes \in SeqsUpTo(Hashes, MaxHashes)
    /\ max_workers \in 1..MaxWorkers
    /\ ppc = "called"
    /\ lookup = [ h \in Hashes |-> "none" ]
    /\ results = [ h \in Hashes |-> "absent" ]

\* Lines 299-303 and 308-309: drop the repeats, return {} for no hash,
\* choose the loop or the pool; the pool gets every lookup at once.
PoolEnter ==
    /\ ppc = "called"
    /\ hashes' = Distinct(hashes)
    /\ ppc' = IF hashes' = << >> THEN "returned"
              ELSE IF Len(hashes') <= SEQUENTIAL_MAX THEN "seq" ELSE "pool"
    /\ lookup' = [ h \in Hashes |->
                     IF h \in Range(hashes') THEN "queued" ELSE "none" ]
    /\ UNCHANGED << max_workers, results >>
    /\ UNCHANGED << evmVars, tronVars, mergeVars, idxVars, blkVars, retryVars, calVars, legVars,
                    getVars, normVars >>

\* Lines 304-306: the next lookup of the loop, called in the caller's
\* thread with no handler around it.
SeqLookup(how) ==
    /\ ppc = "seq"
    /\ \E k \in 1..Len(hashes) :
          /\ lookup[hashes[k]] = "queued"
          /\ \A j \in 1..(k - 1) : lookup[hashes[j]] # "queued"
          /\ lookup' = [ lookup EXCEPT ![hashes[k]] = how ]
          /\ IF how = "raised"
             THEN /\ ppc' = "raised"
                  /\ UNCHANGED results
             ELSE /\ results' = [ results EXCEPT ![hashes[k]] = ResultOf(how) ]
                  /\ UNCHANGED ppc
    /\ UNCHANGED << hashes, max_workers >>
    /\ UNCHANGED << evmVars, tronVars, mergeVars, idxVars, blkVars, retryVars, calVars, legVars,
                    getVars, normVars >>

\* Line 307: the loop is through.
SeqReturn ==
    /\ ppc = "seq"
    /\ \A h \in Range(hashes) : lookup[h] # "queued"
    /\ ppc' = "returned"
    /\ UNCHANGED << hashes, max_workers, lookup, results >>
    /\ UNCHANGED << evmVars, tronVars, mergeVars, idxVars, blkVars, retryVars, calVars, legVars,
                    getVars, normVars >>

\* A worker of the pool takes a queued lookup; the pool has max_workers
\* threads.
PoolStart(h) ==
    /\ ppc = "pool"
    /\ lookup[h] = "queued"
    /\ Cardinality(InFlight) < max_workers
    /\ lookup' = [ lookup EXCEPT ![h] = "running" ]
    /\ UNCHANGED << hashes, max_workers, ppc, results >>
    /\ UNCHANGED << evmVars, tronVars, mergeVars, idxVars, blkVars, retryVars, calVars, legVars,
                    getVars, normVars >>

\* The lookup ends in its worker; a raise is kept in the future.
PoolFinish(h, how) ==
    /\ ppc = "pool"
    /\ lookup[h] = "running"
    /\ lookup' = [ lookup EXCEPT ![h] = how ]
    /\ UNCHANGED << hashes, max_workers, ppc, results >>
    /\ UNCHANGED << evmVars, tronVars, mergeVars, idxVars, blkVars, retryVars, calVars, legVars,
                    getVars, normVars >>

\* Lines 311-319: as_completed hands over a finished future; its raise is
\* caught and replaced by the placeholder.
PoolCollect(h) ==
    /\ ppc = "pool"
    /\ lookup[h] \in LookupOutcomes
    /\ results[h] = "absent"
    /\ results' = [ results EXCEPT ![h] = ResultOf(lookup[h]) ]
    /\ UNCHANGED << hashes, max_workers, ppc, lookup >>
    /\ UNCHANGED << evmVars, tronVars, mergeVars, idxVars, blkVars, retryVars, calVars, legVars,
                    getVars, normVars >>

\* Line 320: every future was handed over.
PoolReturn ==
    /\ ppc = "pool"
    /\ \A h \in Range(hashes) : results[h] # "absent"
    /\ ppc' = "returned"
    /\ UNCHANGED << hashes, max_workers, lookup, results >>
    /\ UNCHANGED << evmVars, tronVars, mergeVars, idxVars, blkVars, retryVars, calVars, legVars,
                    getVars, normVars >>

PoolNext ==
    \/ PoolEnter
    \/ \E how \in LookupOutcomes : SeqLookup(how)
    \/ SeqReturn
    \/ \E h \in Hashes : PoolStart(h)
    \/ \E h \in Hashes, how \in LookupOutcomes : PoolFinish(h, how)
    \/ \E h \in Hashes : PoolCollect(h)
    \/ PoolReturn

SpecPool == PoolInit /\ [][PoolNext]_vars

\* =====================================================================
\* HTTP helpers (fetch_eth.py: _etherscan_get; utils/tronscan.py: _get_single)
\* =====================================================================
\* API_SLEEP_SECONDS of fetch_eth.py, the default backoff of tronscan's
\* _get and the constant added to its 429 sleep, in milliseconds.
API_SLEEP_MS == 250
BACKOFF_MS == 600
EXTRA_429_MS == 250

RECURSIVE Pow2(_)
Pow2(k) == IF k = 0 THEN 1 ELSE 2 * Pow2(k - 1)

\* Answers to a request of _etherscan_get: a JSON body with status '1'
\* ("ok"), one whose message or result names a rate limit ("rate"), another
\* status-0 body ("error"), a body that is not JSON, whose first 120
\* characters may name a rate limit too, and a request that raises.
EthAnswers == { "ok", "rate", "error", "nonjson", "nonjson_rate", "neterr" }

\* Answers to a request of _get_single: 200 with a JSON value, 200 with an
\* empty JSON value, 200 with no JSON, 429, another status, or a
\* requests.RequestException.
TronAnswers == { "json", "emptyjson", "nonjson", "429", "http", "neterr" }

\* Lines 30-33: the body, or the status-0 record made for a non-JSON body.
EthData(answer) ==
    IF answer \in { "nonjson", "nonjson_rate" } THEN "made:" \o answer ELSE answer

\* Line 36: 'rate limit' or 'too many' in message + result.
IsRateLimit(answer) == answer \in { "rate", "nonjson_rate" }

\* Mutant: the guard lets one retry more through.
MayRetryOnceMore(n, max) == n <= max
\* Line 36: attempt < max_retries.
MayRetry(n, max) == n < max

\* Lines 35-37 of tronscan.py: r.json() or {}, {} when it is no JSON.
TronData(answer) == IF answer = "json" THEN "json" ELSE "{}"

RetryInit ==
    /\ EvmUnused
    /\ TronUnused
    /\ MergeUnused
    /\ IdxUnused
    /\ BlkUnused
    /\ PoolUnused
    /\ CalUnused
    /\ LegUnused
    /\ GetUnused
    /\ NormUnused
    /\ rfn \in { "eth", "tron" }
    /\ retries \in 0..MaxRetries
    /\ attempt = 0
    /\ nreq = 0
    /\ sleeps = << >>
    /\ resp = "none"
    /\ ret = None
    /\ rpc = "running"

\* One turn of the loop of _etherscan_get: the request, and either the
\* sleep before the next turn or the return.
EthRequest(answer) ==
    /\ rfn = "eth"
    /\ rpc = "running"
    /\ nreq' = nreq + 1
    /\ resp' = answer
    /\ IF answer = "neterr"
       THEN /\ rpc' = "raised"
            /\ UNCHANGED << attempt, sleeps, ret >>
       ELSE IF IsRateLimit(answer) /\ MayRetry(attempt, retries)
       THEN /\ sleeps' = Append(sleeps, API_SLEEP_MS * Pow2(attempt))
            /\ attempt' = attempt + 1
            /\ UNCHANGED << ret, rpc >>
       ELSE /\ ret' = Some(EthData(answer))
            /\ rpc' = "returned"
            /\ UNCHANGED << attempt, sleeps >>
    /\ UNCHANGED << rfn, retries >>
    /\ UNCHANGED << evmVars, tronVars, mergeVars, idxVars, blkVars, poolVars, calVars, legVars,
                    getVars, normVars >>

\* One turn of the loop of _get_single: the request, and the return of a
\* 200 answer or the sleep of the other ones.
TronRequest(answer) ==
    /\ rfn = "tron"
    /\ rpc = "running"
    /\ attempt <= retries
    /\ nreq' = nreq + 1
    /\ resp' = answer
    /\ IF answer \in { "json", "emptyjson", "nonjson" }
       THEN /\ ret' = Some(TronData(answer))
            /\ rpc' = "returned"
            /\ UNCHANGED << attempt, sleeps >>
       ELSE /\ sleeps' = Append(sleeps,
                            IF answer = "429"
                            THEN BACKOFF_MS * Pow2(attempt) + EXTRA_429_MS
                            ELSE BACKOFF_MS * (attempt + 1))
            /\ attempt' = attempt + 1
            /\ UNCHANGED << ret, rpc >>
    /\ UNCHANGED << rfn, retries >>
    /\ UNCHANGED << evmVars, tronVars, mergeVars, idxVars, blkVars, poolVars, calVars, legVars,
                    getVars, normVars >>

\* Line 47 of tronscan.py: range(retries + 1) is used up.
TronGiveUp ==
    /\ rfn = "tron"
    /\ rpc = "running"
    /\ attempt > retries
    /\ ret' = Some("{}")
    /\ rpc' = "returned"
    /\ UNCHANGED << rfn, retries, attempt, nreq, sleeps, resp >>
    /\ UNCHANGED << evmVars, tronVars, mergeVars, idxVars, blkVars, poolVars, calVars, legVars,
                    getVars, normVars >>

RetryNext ==
    \/ \E answer \in EthAnswers : EthRequest(answer)
    \/ \E answer \in TronAnswers : TronRequest(answer)
    \/ TronGiveUp

SpecRetry == RetryInit /\ [][RetryNext]_vars

\* =====================================================================
\* Month windows over restarts (fetch_tron.py: _month_windows, harvest_simple)
\* =====================================================================
\* Months are counted from the month of the boundary date, month 0.

\* _month_windows(start_dt, end_dt): the months from end_dt's back to
\* start_dt's, newest first (lines 105-121: cur goes back a month a turn
\* and the loop ends with the window that holds start_dt).
RECURSIVE MonthWindows(_, _)
MonthWindows(start, end) ==
    IF end < start THEN << >>
    ELSE IF end = start THEN << end >>
    ELSE << end >> \o MonthWindows(start, end - 1)

\* resume.get('win_index', 0)
ResumeWinIndex(f) == IF f = None THEN 0 ELSE Val(f)

\* The month the list `w` has at win_index `i`, << >> beyond its end.
MonthAt(w, i) == IF i < Len(w) THEN Some(w[i + 1]) ELSE None

CalInit ==
    /\ EvmUnused
    /\ TronUnused
    /\ MergeUnused
    /\ IdxUnused
    /\ BlkUnused
    /\ PoolUnused
    /\ RetryUnused
    /\ LegUnused
    /\ GetUnused
    /\ NormUnused
    /\ now_month \in 0..MaxMonth
    /\ windows = << >>
    /\ cpc = "idle"
    /\ cal_win_index = 0
    /\ cal_resume = None
    /\ savedCal = None
    /\ harvestDone = FALSE
    /\ monthChanged = FALSE

\* The calendar goes on while no harvester runs.
MonthPasses ==
    /\ cpc = "idle"
    /\ now_month < MaxMonth
    /\ now_month' = now_month + 1
    /\ monthChanged' = (cal_resume # None)
    /\ UNCHANGED << windows, cpc, cal_win_index, cal_resume, savedCal, harvestDone >>
    /\ UNCHANGED << evmVars, tronVars, mergeVars, idxVars, blkVars, poolVars, retryVars, legVars,
                    getVars, normVars >>

\* Lines 140-156: the windows up to now, win_index from resume.json.
CalStart ==
    /\ cpc = "idle"
    /\ cpc' = "run"
    /\ windows' = MonthWindows(0, now_month)
    /\ cal_win_index' = ResumeWinIndex(cal_resume)
    /\ UNCHANGED << now_month, cal_resume, savedCal, harvestDone, monthChanged >>
    /\ UNCHANGED << evmVars, tronVars, mergeVars, idxVars, blkVars, poolVars, retryVars, legVars,
                    getVars, normVars >>

\* Lines 247-257: a full page of the window was stored; resume.json gets
\* the window's index.
CalPageSaved ==
    /\ cpc = "run"
    /\ cal_win_index < Len(windows)
    /\ cal_resume' = Some(cal_win_index)
    /\ savedCal' = MonthAt(windows, cal_win_index)
    /\ harvestDone' = FALSE
    /\ monthChanged' = FALSE
    /\ UNCHANGED << now_month, windows, cpc, cal_win_index >>
    /\ UNCHANGED << evmVars, tronVars, mergeVars, idxVars, blkVars, poolVars, retryVars, legVars,
                    getVars, normVars >>

\* Lines 260-269: the window's last slice has ended; resume.json gets the
\* next index.
CalWindowDone ==
    /\ cpc = "run"
    /\ cal_win_index < Len(windows)
    /\ cal_win_index' = cal_win_index + 1
    /\ cal_resume' = Some(cal_win_index')
    /\ savedCal' = MonthAt(windows, cal_win_index')
    /\ harvestDone' = (cal_win_index' >= Len(windows))
    /\ monthChanged' = FALSE
    /\ UNCHANGED << now_month, windows, cpc >>
    /\ UNCHANGED << evmVars, tronVars, mergeVars, idxVars, blkVars, poolVars, retryVars, legVars,
                    getVars, normVars >>

\* Lines 160 and 270: no window is left; the function returns.
CalReturn ==
    /\ cpc = "run"
    /\ cal_win_index >= Len(windows)
    /\ cpc' = "idle"
    /\ windows' = << >>
    /\ cal_win_index' = 0
    /\ UNCHANGED << now_month, cal_resume, savedCal, harvestDone, monthChanged >>
    /\ UNCHANGED << evmVars, tronVars, mergeVars, idxVars, blkVars, poolVars, retryVars, legVars,
                    getVars, normVars >>

\* The process is stopped inside a window.
CalInterrupt ==
    /\ cpc = "run"
    /\ cal_win_index < Len(windows)
    /\ cpc' = "idle"
    /\ windows' = << >>
    /\ cal_win_index' = 0
    /\ UNCHANGED << now_month, cal_resume, savedCal, harvestDone, monthChanged >>
    /\ UNCHANGED << evmVars, tronVars, mergeVars, idxVars, blkVars, poolVars, retryVars, legVars,
                    getVars, normVars >>

CalNext ==
    \/ MonthPasses
    \/ CalStart
    \/ CalPageSaved
    \/ CalWindowDone
    \/ CalReturn
    \/ CalInterrupt

SpecCal == CalInit /\ [][CalNext]_vars

\* =====================================================================
\* The legacy harvester (fetch.py: fetch_and_save_transactions)
\* =====================================================================
\* The newest timestamp of a batch, df['timeStamp'].max().
NewestTs(rows) == TsOf(MaxOf(Blocks(rows)))

LegInit ==
    /\ remote \in UNION { [ 1..n -> 0..MaxPerBlock ] : n \in 1..(MaxBlock + 1) }
    /\ limit \in 1..MaxLimit
    /\ repeatable = FALSE
    /\ pc = "idle"
    /\ start_ts = TsOf(0)
    /\ current_block = 0
    /\ empty_batches = 0
    /\ written = 0
    /\ index = EmptyIndex
    /\ diskIndex = None
    /\ chunks = << >>
    /\ reqs = 0
    /\ outcome = "none"
    /\ saveFailed = FALSE
    /\ rerun = FALSE
    /\ consecEmpty = 0
    /\ torn = {}
    /\ TronUnused
    /\ MergeUnused
    /\ IdxUnused
    /\ BlkUnused
    /\ PoolUnused
    /\ RetryUnused
    /\ CalUnused
    /\ GetUnused
    /\ NormUnused
    /\ leg_pc = "idle"
    /\ end_timestamp \in Boundaries
    /\ leg_block = 0
    /\ leg_ts = 0
    /\ leg_files = {}
    /\ leg_turns = 0

\* Lines 24-46: the newest page gives the first cursor and timestamp.
LegStart ==
    /\ leg_pc = "idle"
    /\ LatestBatch # {}
    /\ leg_pc' = "loop"
    /\ leg_block' = MaxOf(Blocks(LatestBatch))
    /\ leg_ts' = NewestTs(LatestBatch)
    /\ UNCHANGED << end_timestamp, leg_files, leg_turns >>
    /\ UNCHANGED << evmVars, tronVars, mergeVars, idxVars, blkVars, poolVars,
                    retryVars, calVars,
                    getVars, normVars >>

\* Lines 28-43: the API's status is not '1', or it has no transaction.
LegInitFailed(apiError) ==
    /\ leg_pc = "idle"
    /\ apiError \/ LatestBatch = {}
    /\ leg_pc' = "done"
    /\ UNCHANGED << end_timestamp, leg_block, leg_ts, leg_files, leg_turns >>
    /\ UNCHANGED << evmVars, tronVars, mergeVars, idxVars, blkVars, poolVars,
                    retryVars, calVars,
                    getVars, normVars >>

\* Lines 51-94: one turn that writes a file; the cursor becomes the lowest
\* block of the batch and the timestamp the newest of the batch.
LegFetch ==
    /\ leg_pc = "loop"
    /\ leg_ts >= end_timestamp
    /\ Batch(leg_block) # {}
    /\ LET df == Batch(leg_block)
           last_block == MinOf(Blocks(df))
       IN  /\ leg_files' = leg_files \cup { MakeChunkFilename(leg_block, last_block) }
           /\ leg_block' = last_block
           /\ leg_ts' = NewestTs(df)
    /\ leg_turns' = Min2(leg_turns + 1, MaxTurns)
    /\ UNCHANGED << leg_pc, end_timestamp >>
    /\ UNCHANGED << evmVars, tronVars, mergeVars, idxVars, blkVars, poolVars,
                    retryVars, calVars,
                    getVars, normVars >>

\* Lines 64-66 and 89-91: no transaction, or an error status: break.
LegBreak(apiError) ==
    /\ leg_pc = "loop"
    /\ leg_ts >= end_timestamp
    /\ apiError \/ Batch(leg_block) = {}
    /\ leg_pc' = "done"
    /\ leg_turns' = Min2(leg_turns + 1, MaxTurns)
    /\ UNCHANGED << end_timestamp, leg_block, leg_ts, leg_files >>
    /\ UNCHANGED << evmVars, tronVars, mergeVars, idxVars, blkVars, poolVars,
                    retryVars, calVars,
                    getVars, normVars >>

\* Line 51: current_ts is below end_timestamp; the loop ends.
LegBoundary ==
    /\ leg_pc = "loop"
    /\ leg_ts < end_timestamp
    /\ leg_pc' = "done"
    /\ UNCHANGED << end_timestamp, leg_block, leg_ts, leg_files, leg_turns >>
    /\ UNCHANGED << evmVars, tronVars, mergeVars, idxVars, blkVars, poolVars,
                    retryVars, calVars,
                    getVars, normVars >>

\* One turn of the loop with an API that answers.
LegStep == LegFetch \/ LegBreak(FALSE) \/ LegBoundary

LegNext ==
    \/ LegStart
    \/ \E e \in BOOLEAN : LegInitFailed(e)
    \/ LegFetch
    \/ \E e \in BOOLEAN : LegBreak(e)
    \/ LegBoundary

SpecLegacy == LegInit /\ [][LegNext]_vars /\ WF_vars(LegStep)

\* =====================================================================
\* The base endpoints (utils/tronscan.py: _get over _get_single)
\* =====================================================================
GetInit ==
    /\ EvmUnused
    /\ TronUnused
    /\ MergeUnused
    /\ IdxUnused
    /\ BlkUnused
    /\ PoolUnused
    /\ RetryUnused
    /\ CalUnused
    /\ LegUnused
    /\ NormUnused
    /\ nBases \in 1..MaxBases
    /\ g_retries \in 0..MaxRetries
    /\ g_idx = 0
    /\ g_attempt = 0
    /\ g_reqs = [ b \in 1..nBases |-> 0 ]
    /\ g_how = [ b \in 1..nBases |-> "" ]
    /\ g_last = "none"
    /\ g_ret = None
    /\ g_pc = "running"

\* One request of _get_single to the base in use (lines 27-46), and what
\* _get does when that call ends (lines 50-58): a value that is not empty
\* is returned; after {} the next base is taken, or {} is returned after
\* the last one.
GetRequest(answer) ==
    /\ g_pc = "running"
    /\ g_reqs' = [ g_reqs EXCEPT ![g_idx + 1] = @ + 1 ]
    /\ g_last' = answer
    /\ LET how == IF answer \in { "emptyjson", "nonjson" } THEN "unusable"
                  ELSE "exhausted"
       IN  IF answer = "json"
           THEN /\ g_ret' = Some(TronData(answer))
                /\ g_pc' = "returned"
                /\ UNCHANGED << g_idx, g_attempt, g_how >>
           ELSE IF answer \notin { "emptyjson", "nonjson" } /\ g_attempt < g_retries
           THEN /\ g_attempt' = g_attempt + 1
                /\ UNCHANGED << g_idx, g_how, g_ret, g_pc >>
           ELSE /\ g_how' = [ g_how EXCEPT ![g_idx + 1] = how ]
                /\ IF g_idx + 1 < nBases
                   THEN /\ g_idx' = g_idx + 1
                        /\ g_attempt' = 0
                        /\ UNCHANGED << g_ret, g_pc >>
                   ELSE /\ g_ret' = Some("{}")
                        /\ g_pc' = "returned"
                        /\ UNCHANGED << g_idx, g_attempt >>
    /\ UNCHANGED << nBases, g_retries >>
    /\ UNCHANGED << evmVars, tronVars, mergeVars, idxVars, blkVars, poolVars,
                    retryVars, calVars, legVars, normVars >>

GetNext == \E answer \in TronAnswers : GetRequest(answer)

SpecBases == GetInit /\ [][GetNext]_vars

\* =====================================================================
\* The normalizers (utils/tronscan.py: normalize_transactions,
\* normalize_trc20_transfers)
\* =====================================================================
\* A value of a field of a raw record, as the JSON page gives it: absent
\* (or null), an integer, a string of digits, or another string.
NoneV == [ k |-> "none", v |-> 0 ]
TextV == [ k |-> "text", v |-> 0 ]
IntV(n) == [ k |-> "int", v |-> n ]
DigitsV(n) == [ k |-> "digits", v |-> n ]

\* Python's truth value: None, 0 and "" are false, "0" is true.
Truthy(x) == x.k \in { "digits", "text" } \/ (x.k = "int" /\ x.v # 0)

\* int(ts) succeeds on an integer and on a string of digits, and raises
\* on None and on other strings.
IntConvertible(x) == x.k \in { "int", "digits" }

IntOf(x) == x.v

\* The integers tried as timestamps: around 0, around the last second
\* datetime can hold, around the bound from which a value is taken as
\* milliseconds, and milliseconds around that last second.
RawInts ==
    ((0 - 1)..3) \cup
    { MS_FROM \div MS_PER_SEC, MAX_DT_SEC, MAX_DT_SEC + 1,
      MS_FROM - 1, MS_FROM, MS_FROM + 1, MS_FROM + MS_PER_SEC,
      MS_PER_SEC * MAX_DT_SEC + MS_PER_SEC - 1,
      MS_PER_SEC * (MAX_DT_SEC + 1) }

\* A raw record is a dict with the fields 'timestamp' and 'block_ts'; the
\* fields 'time' and 'block_timestamp' are absent from the records tried.
RawRecords ==
    [ timestamp : { NoneV, TextV, DigitsV(0), DigitsV(2) } \cup
                  { IntV(n) : n \in RawInts },
      block_ts : { NoneV, IntV(3) } ]

\* ts = r.get('timestamp') or r.get('time') or r.get('block_timestamp')
\*      or r.get('block_ts')                      (normalize_transactions)
\* ts = t.get('block_ts') or t.get('timestamp') or t.get('time')
\*                                                (normalize_trc20_transfers)
\* `a or b` is a when a is true, else b, whatever b is.
PickTs(fn, r) ==
    IF fn = "transactions"
    THEN IF Truthy(r.timestamp) THEN r.timestamp ELSE r.block_ts
    ELSE IF Truthy(r.block_ts) THEN r.block_ts
         ELSE IF Truthy(r.timestamp) THEN r.timestamp
         ELSE NoneV

\* ts_ms = ts * 1000 if ts < 10**12 else ts
TsMs(ts) == IF ts < MS_FROM THEN ts * MS_PER_SEC ELSE ts

\* ts_sec = ts_ms // 1000
TsSec(ts) == TsMs(ts) \div MS_PER_SEC

\* rec = dict(r) with timestamp_ms and timeStamp added.
NormRecord(r, ts) ==
    [ raw |-> r, timestamp_ms |-> TsMs(ts), timeStamp |-> TsSec(ts) ]

\* datetime.fromtimestamp(ts_sec, tz=timezone.utc) raises ValueError for a
\* second beyond year 9999. (The integers tried stay above its lower end.)
DatetimeOk(sec) == sec <= MAX_DT_SEC

\* The records the loop takes, in input order: those whose picked value
\* int() converts.
RECURSIVE Converted(_, _)
Converted(fn, rs) ==
    IF rs = << >> THEN << >>
    ELSE LET ts == PickTs(fn, Head(rs))
         IN  IF IntConvertible(ts)
             THEN << NormRecord(Head(rs), IntOf(ts)) >> \o Converted(fn, Tail(rs))
             ELSE Converted(fn, Tail(rs))

\* The loop is left by the exception of the first record whose datetime
\* cannot be built.
NormRaises(fn, rs) ==
    \E i \in 1..Len(Converted(fn, rs)) : ~DatetimeOk(Converted(fn, rs)[i].timeStamp)

\* list.sort(key=timeStamp, reverse=True): descending, equal keys keep
\* their order.
InsertByTimeStamp(rec, sorted) ==
    LET k == Cardinality({ i \in 1..Len(sorted) : sorted[i].timeStamp >= rec.timeStamp })
    IN  SubSeq(sorted, 1, k) \o << rec >> \o SubSeq(sorted, k + 1, Len(sorted))

RECURSIVE SortByTimeStamp(_)
SortByTimeStamp(recs) ==
    IF recs = << >> THEN << >>
    ELSE InsertByTimeStamp(recs[Len(recs)],
                           SortByTimeStamp(SubSeq(recs, 1, Len(recs) - 1)))

NormInit ==
    /\ EvmUnused
    /\ TronUnused
    /\ MergeUnused
    /\ IdxUnused
    /\ BlkUnused
    /\ PoolUnused
    /\ RetryUnused
    /\ CalUnused
    /\ LegUnused
    /\ GetUnused
    /\ norm_fn \in { "transactions", "transfers" }
    /\ raw \in SeqsUpTo(RawRecords, MaxRaw)
    /\ norm = << >>
    /\ norm_pc = "called"

\* One call of the normalizer on the list.
Normalize ==
    /\ norm_pc = "called"
    /\ IF NormRaises(norm_fn, raw)
       THEN /\ norm_pc' = "raised"
            /\ norm' = << >>
       ELSE /\ norm_pc' = "returned"
            /\ norm' = SortByTimeStamp(Converted(norm_fn, raw))
    /\ UNCHANGED << norm_fn, raw >>
    /\ UNCHANGED << evmVars, tronVars, mergeVars, idxVars, blkVars, poolVars,
                    retryVars, calVars, legVars, getVars >>

NormNext == Normalize

SpecNorm == NormInit /\ [][NormNext]_vars

\* =====================================================================
\* Claims about the EVM harvester and the coverage index
\* =====================================================================

Contained(b, idx) == \E f \in idx.files : f[2] <= b /\ b <= f[1]

\* C1: for every index built by record-chunk operations, _covering_range
\* and is_block_in_index report block b as covered if and only if some
\* recorded chunk range has low <= b <= high (a block in a gap inside the
\* global envelope is not covered).
C1_CoverageIffContained ==
    \A b \in (0 - 1)..(MaxBlock + 1) :
        /\ (CoveringRange(b, index) # None) <=> Contained(b, index)
        /\ IsBlockInIndex(b, index) <=> Contained(b, index)

\* The part of C1 that the code satisfies: the utility lookup alone.
IsBlockInIndexIffContained ==
    \A b \in (0 - 1)..(MaxBlock + 1) :
        IsBlockInIndex(b, index) <=> Contained(b, index)

\* C2: a run that repeats a completed run (same boundary, same remote data,
\* index left by that run) writes no chunk and changes neither the index
\* file, nor the index in memory, nor the chunk directory.
C2_RerunWritesNothing ==
    [][ rerun' =>
          /\ written' = 0
          /\ diskIndex' = diskIndex
          /\ chunks' = chunks
          /\ index' = LoadIndex(diskIndex) ]_vars

C2_Witness ==
    /\ rerun
    /\ pc = "done"
    /\ outcome \in Completed
    /\ diskIndex # None
    /\ LoadIndex(diskIndex).files # {}
    /\ reqs > 0

\* C3: after a run that ends by reaching the boundary, every block that holds
\* remote records at or after the boundary (up to the newest block seen at
\* INIT) lies in some recorded chunk range of the persisted index.
C3_Resumable ==
    (pc = "done" /\ outcome \in {"boundary", "below_boundary"}) =>
        \A b \in 0..Top :
            (Count(b) > 0 /\ TsOf(b) >= start_ts) =>
                Contained(b, LoadIndex(diskIndex))

\* C4: whenever the cursor lies inside a recorded chunk range [low, high],
\* the next step issues no fetch and sets the cursor to low - 1 of a range
\* containing it (or ends the run when that would be below block 0).
C4_SkipToLowMinusOne ==
    [][ (pc = "loop" /\ Contained(current_block, index)) =>
          /\ reqs' = 0
          /\ \E f \in index.files :
                /\ f[2] <= current_block /\ current_block <= f[1]
                /\ \/ current_block' = f[2] - 1
                   \/ f[2] = 0 /\ pc' = "done" ]_vars

\* C5: a fetched batch that reaches below the boundary T ends the run in
\* that step; if records at or after T remain, exactly those are written as
\* the chunk <<cursor, lowest kept block>>, which is recorded in the index;
\* if none remains, nothing is written.
C5_BoundaryTrim ==
    [][ ( /\ pc = "loop"
          /\ CoveringRange(current_block, index) = None
          /\ \E r \in Batch(current_block) : TsOf(r[1]) < start_ts
          /\ outcome' \notin {"abort", "write_failed"} ) =>
        LET kept == { r \in Batch(current_block) : TsOf(r[1]) >= start_ts }
            name == << current_block, MinOf(Blocks(kept)) >>
        IN  /\ pc' = "done"
            /\ IF kept = {}
               THEN /\ chunks' = chunks
                    /\ written' = written
                    /\ index' = index
                    /\ diskIndex' = diskIndex
               ELSE /\ name \in DOMAIN chunks'
                    /\ chunks'[name] = kept
                    /\ name \in index'.files
                    /\ written' = written + 1 ]_vars

C5_Witness ==
    /\ pc = "done"
    /\ outcome = "boundary"
    /\ written > 0
    /\ \E n \in DOMAIN chunks :
          /\ n[2] = current_block + 1
          /\ chunks[n] # {}
          /\ chunks[n] # PageFrom(n[1], limit)
          /\ \E r \in chunks[n] : TsOf(r[1]) = start_ts

\* C6: an empty page that is the first or second of a row of empty pages
\* moves the cursor down by exactly one and the run fetches again; the third
\* consecutive empty page ends the run normally; no empty page writes a chunk
\* or changes the index.
C6_ThreeEmptyPagesEnd ==
    [][ (pc = "loop" /\ consecEmpty' = consecEmpty + 1) =>
          /\ written' = written
          /\ chunks' = chunks
          /\ index' = index
          /\ diskIndex' = diskIndex
          /\ IF consecEmpty' < 3
             THEN /\ pc' = "loop"
                  /\ current_block' = current_block - 1
                  /\ CoveringRange(current_block', index') = None
             ELSE /\ consecEmpty' = 3
                  /\ pc' = "done"
                  /\ outcome' = "empty" ]_vars

C6_Witness ==
    /\ pc = "done"
    /\ outcome = "empty"
    /\ consecEmpty = 3
    /\ written > 0

\* C8: every chunk file named high_low holds every remote record whose block
\* lies in [low, high] and whose timestamp is at or after the boundary.
C8_ChunkHoldsAllRecords ==
    \A n \in DOMAIN chunks :
        { r \in RemoteRecords :
            n[2] <= r[1] /\ r[1] <= n[1] /\ TsOf(r[1]) >= start_ts }
          \subseteq chunks[n]

\* =====================================================================
\* Claims about the TRON harvester
\* =====================================================================

NoRepeatedHash(rows) ==
    \A j, k \in 1..Len(rows) : j # k => rows[j][1] # rows[k][1]
NoSharedHash(rows) ==
    \A r1, r2 \in rows : r1[1] = r2[1] => r1 = r2

\* C9: when merge_eth has completed a second time on an unchanged chunk
\* directory, the merged file has as many rows as after the first time and
\* no two of its rows share a hash; the file merge.py writes (the same on
\* every run over a directory) has no two rows sharing a hash either.
C9_MergeTwiceSame ==
    /\ twice => Len(output) = mergedLen /\ NoRepeatedHash(output)
    /\ NoSharedHash(legacyOut)

\* The part of C9 that the code satisfies: the row count of merge_eth.
MergeTwiceSameRowCount ==
    twice => Len(output) = mergedLen

\* C10: whenever merge_eth is not running, no two rows of its merged file
\* share a hash, whatever chunk files (overlapping ones included) it merged
\* and also after it was killed between an append and the marking.
C10_NoDuplicateRows ==
    mpc = "idle" => NoRepeatedHash(output)

\* =====================================================================
\* Claims about the index utilities
\* =====================================================================

\* C11: for every index the operations build, saving it, loading the file
\* and saving again gives the document of the first save; and loading a
\* legacy flat file gives an index with the files and the global envelope
\* that update_index_with_file builds for the same names from the empty
\* index, never the empty index when the file has entries.
C11_IndexRoundTrip ==
    /\ DumpIndex(LoadIndexFile(Some(DumpIndex(ix)))) = DumpIndex(ix)
    /\ (ixFile # None /\ ~ Val(ixFile).hasFiles) =>
          LET names  == DOMAIN Val(ixFile).entries
              loaded == LoadIndexFile(ixFile)
              built  == BuildFrom(EmptyIndex, names)
          IN  /\ loaded.files = built.files
              /\ loaded.global = built.global
              /\ names # {} => loaded # EmptyIndex

\* An index loaded from a legacy file with two entries, then extended,
\* marked, saved in the new form and loaded again.
C11_Witness ==
    /\ ixLegacy
    /\ ixFile # None
    /\ Val(ixFile).hasFiles
    /\ ix = LoadIndexFile(ixFile)
    /\ Cardinality(ix.files) >= 3
    /\ ix.merged.files # {}

\* A legacy file with two entries has just been loaded.
LegacyLoaded ==
    /\ ixLegacy
    /\ ixFile # None
    /\ Cardinality(DOMAIN Val(ixFile).entries) >= 2
    /\ ix = LoadIndexFile(ixFile)

\* C12: marking recorded chunk names a second time changes nothing, and
\* merged.min / merged.max are the least low / greatest high over the names
\* in merged.files (null when there is none).
C12_MarkIdempotent ==
    /\ \A names \in SUBSET ix.files :
          LET once1 == MarkFilesMerged(ix, SortedDesc(names))
          IN  MarkFilesMerged(once1, SortedDesc(names)) = once1
    /\ LET mf == ix.merged.files
       IN  IF mf = {}
           THEN ix.merged.min = None /\ ix.merged.max = None
           ELSE /\ ix.merged.min = Some(MinOf({ n[2] : n \in mf }))
                /\ ix.merged.max = Some(MaxOf({ n[1] : n \in mf }))

\* Two markings have happened: merged.files holds two names, one of which
\* alone does not give the envelope.
C12_Witness ==
    /\ Cardinality(ix.merged.files) >= 2
    /\ \E n \in ix.merged.files :
          ix.merged.min # Some(n[2]) \/ ix.merged.max # Some(n[1])

\* C16: global.min is the least low and global.max the greatest high over
\* the entries of files (both null when files is empty), whether the index
\* started empty or was loaded from a legacy file.
C16_GlobalEnvelope ==
    IF ix.files = {}
    THEN ix.global.min = None /\ ix.global.max = None
    ELSE /\ ix.global.min = Some(MinOf({ n[2] : n \in ix.files }))
         /\ ix.global.max = Some(MaxOf({ n[1] : n \in ix.files }))

\* A legacy index that was extended by a chunk lying outside its envelope.
C16_Witness ==
    /\ ixLegacy
    /\ ixFile # None
    /\ DOMAIN Val(ixFile).entries # {}
    /\ ix.files # DOMAIN Val(ixFile).entries
    /\ ix.global # LoadIndexFile(ixFile).global

\* ---- TRON harvester under kills and failed fetches ----

\* C13 (resume half): after a kill at any point of _save_resume the resume
\* file on disk is the complete old one or the complete new one, never a
\* partly written one.
C13_PersistedFilesWhole == resumeFile # TornFile

\* C15: each kill and restart makes the harvester fetch at most one page
\* again that it has already stored, for every number of slices per window:
\* the requests repeated so far are no more than the kills so far.
C15_AtMostOneRefetched == again <= kills

\* With one slice per window the resume offset belongs to the slice that is
\* re-entered, and only the page stored before the kill is fetched again.
OneSliceAtMostOneRefetched == nSlices = 1 => again <= kills

\* The case of OneSliceAtMostOneRefetched: a stored page was fetched again.
OneSliceRefetched == nSlices = 1 /\ again = 1 /\ kills = 1

\* C19: a window is never finished, and the persisted window index never
\* moved past it, because a page fetch had failed on every endpoint.
C19_FailureNotCompletion == ~ passedOnFailure

\* ---- EVM harvester under cut writes and kills ----

\* C14: every chunk name recorded in index.json has its file on disk, and
\* that file was written to its end, also after a cut write or a kill at any
\* step.
C14_IndexedChunksWhole ==
    \A name \in LoadIndex(diskIndex).files :
        name \in DOMAIN chunks /\ name \notin torn

\* A chunk write was cut short while index.json already recorded chunks,
\* and a later run is under way.
C14_Witness ==
    /\ torn # {}
    /\ LoadIndex(diskIndex).files # {}
    /\ pc = "loop"
    /\ \E name \in torn : chunks[name] = {}

\* ---- EVM harvester under network and disk faults ----

\* C18: no failure of a page request leaves the harvester as an exception
\* nobody caught, in the initial fetch or in the paging loop.
C18_NeverUncaught == outcome # "uncaught"

\* A failure of the initial fetch ends the run by the return of line 180.
InitialFetchFailureCaught ==
    [][\A e \in BOOLEAN : InitFetchFailed(e) => outcome' = "init_failed"]_vars

\* C20: once a save_index of the run has failed, the run is over: it
\* processes no further chunk on top of the index that was not persisted,
\* and the index in memory has no entry that index.json lacks.
C20_StopsOnFailedSave ==
    saveFailed => /\ pc = "done"
                  /\ index.files = LoadIndex(diskIndex).files

\* A chunk write that raised leaves the index in memory and on disk as
\* they were and ends the loop.
WriteFailureKeepsIndex ==
    [][\A h \in 0..1 : WriteFailed(h) =>
          /\ index' = index
          /\ diskIndex' = diskIndex
          /\ pc' = "done"]_vars

\* ---- order of the two blocks of an index entry ----

\* The entry update_index_with_file stores for a file name has low <= high.
LowLeHigh(name) ==
    LET rng == ParseBlockRange(name)
    IN  rng # None /\ rng[2] <= rng[1]

MergeEntriesLowLeHigh ==
    \A name \in mindex.files \cup LoadIndex(mdiskIndex).files : LowLeHigh(name)

\* The case of MergeEntriesLowLeHigh: a merge run has recorded a chunk
\* spanning two blocks.
MergeRecordedSpan ==
    \E name \in LoadIndex(mdiskIndex).files : name[2] < name[1]

\* ---- EVM harvester: hard API errors and the initial fetch ----

\* C22: a step of the paging loop that met a hard API error issues exactly
\* one more request for the same cursor; when that fails too the run ends
\* with no chunk written and the index unchanged, in memory and on disk;
\* when it succeeds the step goes on with the batch of the same cursor (an
\* empty batch is counted, a batch below the boundary ends the run, any
\* other is written under the name that starts with the cursor).
C22_HardErrorRetriedOnce ==
    [][ (pc = "loop" /\ reqs' >= 2) =>
          /\ reqs' = 2
          /\ IF outcome' = "abort"
             THEN /\ pc' = "done"
                  /\ chunks' = chunks
                  /\ written' = written
                  /\ index' = index
                  /\ diskIndex' = diskIndex
             ELSE LET df0 == Batch(current_block)
                      df == FilterFromBoundary(df0, start_ts)
                      name == << current_block, MinOf(Blocks(df)) >>
                  IN  IF df0 = {}
                      THEN /\ consecEmpty' = consecEmpty + 1
                           /\ chunks' = chunks
                      ELSE IF df = {}
                      THEN /\ outcome' = "below_boundary"
                           /\ chunks' = chunks
                      ELSE /\ name \in DOMAIN chunks'
                           /\ chunks'[name] = df
                           /\ written' = written + 1 ]_vars

\* A hard error was followed by a retry that returned a batch, which was
\* written, and the loop goes on.
C22_Witness ==
    /\ pc = "loop"
    /\ reqs = 2
    /\ written > 0

\* C23: when the initial fetch fails or returns no record the run is over
\* after that one request: the step writes no chunk and leaves index.json
\* alone, the run is never in the paging loop, and the only step that
\* follows is the return, which fetches and writes nothing.
C23_InitFailureReturnsAtOnce ==
    [][ /\ (pc = "idle" /\ LatestBatch = {} /\ pc' # "idle") =>
              outcome' = "init_failed"
        /\ outcome' = "init_failed" =>
              /\ pc' = "done"
              /\ reqs' = 1
              /\ chunks' = chunks
              /\ diskIndex' = diskIndex
              /\ written' = written
        /\ outcome = "init_failed" =>
              /\ pc' = "idle"
              /\ reqs' = 0
              /\ chunks' = chunks
              /\ diskIndex' = diskIndex ]_vars

\* The initial fetch of a later run failed while index.json and chunk files
\* of an earlier run exist.
C23_Witness ==
    /\ outcome = "init_failed"
    /\ pc = "done"
    /\ LoadIndex(diskIndex).files # {}
    /\ DOMAIN chunks # {}

\* ---- merge_eth: batch saves and chunks that lack columns ----

\* Chunks the run under way has appended to the output and index.json does
\* not mark merged.
AppendedUnmarked ==
    { new_chunks[k] : k \in { j \in 1..Len(new_chunks) :
          /\ j < mi
          /\ mdir[new_chunks[j]].ok
          /\ new_chunks[j] \notin LoadIndex(mdiskIndex).merged.files } }

\* C24: at every point of a merge run at most BATCH_SAVE_INTERVAL chunks are
\* appended to the output and not marked merged in index.json, whichever
\* chunks lack columns.
C24_UnmarkedAtMostInterval ==
    mpc = "loop" => Cardinality(AppendedUnmarked) <= BATCH_SAVE_INTERVAL

\* When every chunk of the directory has all columns, fewer than
\* BATCH_SAVE_INTERVAL chunks are appended and unmarked between two steps.
AllGoodUnmarkedBelowInterval ==
    (mpc = "loop" /\ \A n \in DOMAIN mdir : mdir[n].ok) =>
        Cardinality(AppendedUnmarked) < BATCH_SAVE_INTERVAL

\* The case of AllGoodUnmarkedBelowInterval: a run over good chunks only has
\* passed an intermediate save and appended a chunk after it.
AllGoodPastSave ==
    /\ mpc = "loop"
    /\ \A n \in DOMAIN mdir : mdir[n].ok
    /\ mi > BATCH_SAVE_INTERVAL + 1
    /\ AppendedUnmarked # {}

\* C25: the step that meets a chunk lacking a standard column appends
\* nothing, saves nothing and leaves the run in its loop at the next
\* candidate; no such chunk is ever marked merged in index.json; and when a
\* run completes, index.json marks merged every chunk the run appended.
C25_BadChunkPassedOver ==
    [][ /\ ( /\ mpc = "loop"
             /\ mi <= Len(new_chunks)
             /\ ~ mdir[new_chunks[mi]].ok
             /\ crashes' = crashes ) =>
                /\ output' = output
                /\ mdiskIndex' = mdiskIndex
                /\ mpc' = "loop"
                /\ mi' = mi + 1
        /\ \A n \in LoadIndex(mdiskIndex').merged.files :
                n \in DOMAIN mdir' /\ mdir'[n].ok
        /\ (mpc = "loop" /\ mpc' = "idle" /\ crashes' = crashes) =>
                \A k \in 1..Len(new_chunks) :
                    mdir[new_chunks[k]].ok =>
                        new_chunks[k] \in LoadIndex(mdiskIndex').merged.files
      ]_vars

\* A run has completed over a directory holding a chunk that lacks a column
\* and two chunks that were appended and are marked merged.
C25_Witness ==
    /\ mpc = "idle"
    /\ once
    /\ \E n \in DOMAIN mdir : ~ mdir[n].ok
    /\ Cardinality(LoadIndex(mdiskIndex).merged.files) >= 2
    /\ Len(output) >= 2

\* ---- TRON harvester: duplicate counter, page cap, resume position ----

\* C27: a step ends its slice by the duplicate break only when, that page
\* included, DUP_PAGES_BREAK consecutive stored pages of the present window
\* brought no new record (pages of earlier windows do not count).
C27_DupBreakCountsThisWindow ==
    [][ ( /\ tpc = "page"
          /\ prevEnd'.why = "dup"
          /\ << win_index', slice_idx', tpc' >> # << win_index, slice_idx, tpc >> )
        => winDups + 1 >= DUP_PAGES_BREAK ]_vars

\* C28: the non-empty pages fetched in the present slice are never more
\* than MAX_PAGES_PER_WINDOW, whatever the pages hold.
C28_PagesAtMostCap == pages_in_slice <= MAX_PAGES_PER_WINDOW

\* A page that is stored and adds records when the slice already has
\* MAX_PAGES_PER_WINDOW pages or one less ends the slice.
StoredPagesBelowCap ==
    [][ (tpc = "page" /\ tronStore' # tronStore) =>
           pages_in_slice < MAX_PAGES_PER_WINDOW \/ pages_in_slice' = 0 ]_vars

\* C29: while the harvester is in its page loop, resume.json (or its
\* absence) gives the present window index and the offset of the next page
\* to fetch.
C29_ResumeIsNextPage ==
    tpc = "page" =>
        /\ LoadResume(resumeFile).win_index = win_index
        /\ LoadResume(resumeFile).page_offset = page_offset

\* After a full page that ends nothing, resume.json gives the window and
\* the offset of the next page.
FullPagePersistsNext ==
    [][ (tpc = "page" /\ tpc' = "page" /\ resumeFile' # resumeFile) =>
           /\ Val(resumeFile').win_index = win_index'
           /\ Val(resumeFile').page_offset = page_offset' ]_vars

\* ---- TRON block files ----

\* C26: the block file holds no two records with one transaction id, holds
\* every record it held before the last call, is sorted newest first, and
\* is unchanged by a call whose records all have ids the file already had.
C26_BlockFileMerge ==
    /\ \A i, j \in 1..Len(blkFile) :
          (i # j /\ blkFile[i].id # NoId) => blkFile[i].id # blkFile[j].id
    /\ \A i \in 1..Len(blkPrev) :
          Cardinality({ k \in 1..Len(blkPrev) : blkPrev[k] = blkPrev[i] })
            <= Cardinality({ k \in 1..Len(blkFile) : blkFile[k] = blkPrev[i] })
    /\ \A i, j \in 1..Len(blkFile) :
          i < j => blkFile[i].ts >= blkFile[j].ts
    /\ (\A k \in 1..Len(blkLast) :
            blkLast[k].id # NoId /\ blkLast[k].id \in IdsOf(blkPrev))
          => blkFile = blkPrev

\* The last call brought a record the file had (in another retrieval) and a
\* newer record that went to the front of a file of two.
C26_Witness ==
    /\ Len(blkPrev) = 2
    /\ Len(blkFile) = 3
    /\ Len(blkLast) = 2
    /\ \E k \in 1..2 :
          /\ blkLast[k].id \in IdsOf(blkPrev)
          /\ \A i \in 1..2 : blkPrev[i] # blkLast[k]
    /\ blkFile[1] \notin { blkPrev[1], blkPrev[2] }
    /\ blkFile[1].ts > blkFile[2].ts

\* ---- cost lookups ----

ResultKeys == { h \in Hashes : results[h] # "absent" }

\* C21: a call of fetch_costs_parallel is never ended by a lookup's raise;
\* the mapping it returns has exactly the distinct input hashes as keys and
\* the placeholder for every lookup that failed or raised; never more than
\* max_workers lookups are in flight.
C21_EveryHashAnswered ==
    /\ ppc # "raised"
    /\ ppc = "returned" =>
          /\ ResultKeys = Range(hashes)
          /\ \A h \in Range(hashes) :
                lookup[h] \in { "failed", "raised" } => results[h] = "pending"
    /\ Cardinality(InFlight) <= max_workers

\* What holds: only a call of at most SEQUENTIAL_MAX distinct hashes is
\* ended by a raise; every call that returns has the claimed mapping, and
\* the pool keeps to max_workers.
RaiseEndsOnlySmallCalls ==
    /\ ppc = "raised" => Len(hashes) <= SEQUENTIAL_MAX
    /\ ppc = "returned" =>
          /\ ResultKeys = Range(hashes)
          /\ \A h \in Range(hashes) :
                /\ lookup[h] \in { "failed", "raised" } => results[h] = "pending"
                /\ lookup[h] = "ok" => results[h] = "cost"
    /\ Cardinality(InFlight) <= max_workers

\* A call through the pool returned although a lookup raised.
PoolReturnedDespiteRaise ==
    /\ ppc = "returned"
    /\ Len(hashes) > SEQUENTIAL_MAX
    /\ \E h \in Hashes : lookup[h] = "raised"
    /\ \E h \in Hashes : lookup[h] = "ok"

\* ---- HTTP helpers ----

\* C30: a call makes at most retries + 1 requests; _etherscan_get sleeps
\* API_SLEEP_SECONDS * 2^k before its retry k (k counted from 0) and, its
\* retries used up, returns the last response; _get_single returns the
\* empty result unless a request brought a JSON value.
C30_RetriesBounded ==
    /\ nreq <= retries + 1
    /\ rfn = "eth" =>
          /\ Len(sleeps) >= nreq - 1
          /\ \A k \in 1..Len(sleeps) : sleeps[k] = API_SLEEP_MS * Pow2(k - 1)
          /\ rpc = "returned" => ret = Some(EthData(resp))
    /\ (rfn = "tron" /\ rpc = "returned") =>
          ret = IF resp = "json" THEN Some("json") ELSE Some("{}")

\* _etherscan_get was answered with a rate limit every time and returned
\* the last answer after max_retries + 1 requests.
C30_Witness ==
    /\ rfn = "eth"
    /\ rpc = "returned"
    /\ retries = MaxRetries
    /\ nreq = retries + 1
    /\ Len(sleeps) = retries
    /\ sleeps[Len(sleeps)] = API_SLEEP_MS * Pow2(retries - 1)
    /\ ret = Some("rate")

\* _get_single used up its requests and returned the empty result.
TronRetriesUsedUp ==
    /\ rfn = "tron"
    /\ rpc = "returned"
    /\ retries = MaxRetries
    /\ nreq = retries + 1
    /\ resp = "429"
    /\ ret = Some("{}")

\* ---- the EVM harvester's loop ----

\* C34: every turn of the main loop that stays in the loop lowers the
\* cursor, and a run that entered the loop leaves it.
C34_CursorFallsRunEnds ==
    /\ [][ (pc = "loop" /\ pc' = "loop") => current_block' < current_block ]_vars
    /\ [](pc = "loop" => <>(pc = "done"))

\* A run that found an index file skipped a range, wrote a chunk, went below
\* block 0 and ended on the empty pages there.
C34_Witness ==
    /\ pc = "done"
    /\ outcome = "empty"
    /\ written >= 1
    /\ current_block < 0
    /\ LoadIndex(diskIndex).global.max # None
    /\ Val(LoadIndex(diskIndex).global.max) = MaxBlock
    /\ Cardinality(LoadIndex(diskIndex).files) = 1

\* C35: a run that ended on the empty-batch limit fetched nothing but empty
\* pages in its last MAX_EMPTY_BATCHES page fetches.
C35_LastPagesAllEmpty ==
    (pc = "done" /\ outcome = "empty") => consecEmpty >= MAX_EMPTY_BATCHES

\* What holds: the run ends on the limit when the empty pages of the whole
\* run, consecutive or not, number MAX_EMPTY_BATCHES.
EmptyLimitCountsWholeRun ==
    /\ (pc = "done" /\ outcome = "empty") => empty_batches = MAX_EMPTY_BATCHES
    /\ pc = "loop" => empty_batches < MAX_EMPTY_BATCHES
    /\ consecEmpty <= empty_batches

\* A run ended on the limit with a chunk written between its empty pages.
EndedOnScatteredEmptyPages ==
    /\ pc = "done"
    /\ outcome = "empty"
    /\ consecEmpty < MAX_EMPTY_BATCHES
    /\ written >= 1

\* C36: no block lies in two chunk ranges recorded in index.json.
C36_RecordedRangesDisjoint ==
    \A a, b \in LoadIndex(diskIndex).files :
        a # b => (a[1] < b[2] \/ b[1] < a[2])

\* C37: a turn of the loop that writes no chunk (skip of a covered range,
\* empty page, abort after the repeated hard error, stop below the boundary)
\* leaves the index in memory, index.json and every chunk file as they were;
\* a turn that changes one of them is the one that wrote a chunk.
C37_OnlyWriteStepChanges ==
    [][ (pc = "loop" /\ written' = written) =>
            /\ index' = index
            /\ diskIndex' = diskIndex
            /\ chunks' = chunks ]_vars

\* A run on a directory that holds chunks skipped the recorded range and
\* stopped below the boundary without writing.
C37_Witness ==
    /\ pc = "done"
    /\ outcome = "below_boundary"
    /\ written = 0
    /\ reqs >= 1
    /\ chunks # << >>
    /\ diskIndex # None

\* ---- TRON month windows over restarts ----

\* C38: a run starts at the month that resume.json pointed at when it was
\* written, whatever the month is now; and a run started after the harvest
\* was completed starts at the newest window.
C38_ResumesSameMonth ==
    [][ (cpc = "idle" /\ cpc' = "run") =>
            /\ savedCal # None =>
                  MonthAt(windows', cal_win_index') = savedCal
            /\ harvestDone =>
                  MonthAt(windows', cal_win_index') = Some(now_month) ]_vars

\* What holds: in the month in which resume.json was written, a run starts
\* at the month it pointed at.
ResumesSameMonthWithinMonth ==
    [][ (cpc = "idle" /\ cpc' = "run" /\ savedCal # None /\ ~monthChanged) =>
            MonthAt(windows', cal_win_index') = savedCal ]_vars

\* A run was started, in the month of the last save, at an older window.
ResumedAtOlderWindow ==
    /\ cpc = "run"
    /\ ~monthChanged
    /\ ~harvestDone
    /\ cal_resume # None
    /\ cal_win_index = Val(cal_resume)
    /\ cal_win_index >= 1
    /\ MonthAt(windows, cal_win_index) = savedCal

\* ---- the legacy harvester ----

\* C39: every turn of the legacy loop that stays in the loop lowers
\* current_block, and a walk that entered the loop leaves it.
C39_LegacyCursorFalls ==
    /\ [][ (leg_pc = "loop" /\ leg_pc' = "loop" /\ leg_turns < MaxTurns) =>
              leg_block' < leg_block ]_vars
    /\ [](leg_pc = "loop" => <>(leg_pc = "done"))

\* What holds: a turn whose batch reaches below the cursor lowers it.
LegacyCursorNeverRises ==
    [][ (leg_pc = "loop" /\ leg_pc' = "loop" /\ leg_turns < MaxTurns) =>
            /\ leg_block' <= leg_block
            /\ (\E r \in Batch(leg_block) : r[1] < leg_block) =>
                  leg_block' < leg_block ]_vars

\* The loop has made MaxTurns turns and stands where it stood.
LegacyLoopStuck ==
    /\ leg_pc = "loop"
    /\ leg_turns = MaxTurns
    /\ leg_ts >= end_timestamp
    /\ Batch(leg_block) # {}
    /\ MinOf(Blocks(Batch(leg_block))) = leg_block

\* ---- the base endpoints ----

\* C31: no base is asked before the ones ahead of it have given up; a base
\* is given up only after retries + 1 requests; a call that returned a value
\* asked no later base; a call that returned {} asked every base in vain.
C31_BasesInOrder ==
    /\ g_pc # "idle" =>
          \A b \in 1..nBases :
              /\ b > g_idx + 1 => g_reqs[b] = 0
              /\ b < g_idx + 1 => g_reqs[b] = g_retries + 1
    /\ (g_pc = "returned" /\ g_ret = Some("{}")) =>
          /\ g_idx + 1 = nBases
          /\ \A b \in 1..nBases : g_reqs[b] >= 1 /\ g_how[b] # ""

\* What holds: a base is given up after retries + 1 requests or after a
\* 200 answer that holds no value; the rest as claimed.
BaseGivenUpOrUnusable ==
    /\ g_pc # "idle" =>
          \A b \in 1..nBases :
              /\ b > g_idx + 1 => g_reqs[b] = 0
              /\ b < g_idx + 1 =>
                    \/ g_how[b] = "exhausted" /\ g_reqs[b] = g_retries + 1
                    \/ g_how[b] = "unusable" /\ g_reqs[b] <= g_retries + 1
              /\ g_reqs[b] <= g_retries + 1
    /\ (g_pc = "returned" /\ g_ret = Some("{}")) =>
          /\ g_idx + 1 = nBases
          /\ \A b \in 1..nBases : g_reqs[b] >= 1 /\ g_how[b] # ""
    /\ (g_pc = "returned" /\ g_ret # Some("{}")) => g_last = "json"

\* The second base answered after the first had used up its requests.
SecondBaseAnswered ==
    /\ g_pc = "returned"
    /\ g_ret = Some("json")
    /\ g_idx = 1
    /\ g_retries >= 1
    /\ g_how[1] = "exhausted"

\* ---- the normalizers ----

\* How often x is an element of the list s.
TimesIn(x, s) == Cardinality({ i \in DOMAIN s : s[i] = x })

\* A record with a timestamp field that parses as an integer.
HasParsableTs(r) == IntConvertible(r.timestamp) \/ IntConvertible(r.block_ts)

\* The records of the returned list, in its order.
NormRaws == [ i \in DOMAIN norm |-> norm[i].raw ]

\* Descending by timeStamp.
NormDescending ==
    \A i, j \in DOMAIN norm : i < j => norm[i].timeStamp >= norm[j].timeStamp

\* Among the records of one second the input order is kept.
NormStable ==
    \A t \in { norm[i].timeStamp : i \in DOMAIN norm } :
        SelectSeq(NormRaws, LAMBDA r :
                    TsSec(IntOf(PickTs(norm_fn, r))) = t)
          = SelectSeq(raw, LAMBDA r :
                    /\ IntConvertible(PickTs(norm_fn, r))
                    /\ TsSec(IntOf(PickTs(norm_fn, r))) = t)

\* C32: the call does not raise, and the list it returns holds exactly the
\* input records with a timestamp that parses as an integer, each as often
\* as the input holds it, newest second first, input order kept among the
\* records of one second.
C32_NormalizedExactly ==
    norm_pc \in { "returned", "raised" } =>
        /\ norm_pc = "returned"
        /\ \A r \in RawRecords :
              TimesIn(r, NormRaws) = IF HasParsableTs(r) THEN TimesIn(r, raw) ELSE 0
        /\ NormDescending
        /\ NormStable

\* What holds: the call raises exactly when a record it takes has a second
\* beyond datetime's range; a list it returns holds the records whose
\* picked value int() converts, in the claimed order.
NormalizedWhatIntConverts ==
    /\ norm_pc \in { "returned", "raised" } =>
          (norm_pc = "raised" <=>
              \E i \in DOMAIN raw :
                  /\ IntConvertible(PickTs(norm_fn, raw[i]))
                  /\ TsSec(IntOf(PickTs(norm_fn, raw[i]))) > MAX_DT_SEC)
    /\ norm_pc = "returned" =>
          /\ \A r \in RawRecords :
                TimesIn(r, NormRaws) =
                    IF IntConvertible(PickTs(norm_fn, r)) THEN TimesIn(r, raw) ELSE 0
          /\ NormDescending
          /\ NormStable

\* A list of three records of two seconds came back in order, the two of
\* the same second as they came.
NormalizedThreeInOrder ==
    /\ norm_pc = "returned"
    /\ Len(norm) = 3
    /\ Len(raw) = 3
    /\ norm[1].timeStamp > norm[2].timeStamp
    /\ norm[2].timeStamp = norm[3].timeStamp
    /\ norm[2].raw # norm[3].raw
    /\ raw[3] = norm[1].raw

\* The call raised on a list of one record with an integer timestamp.
NormalizerRaised ==
    /\ norm_pc = "raised"
    /\ Len(raw) = 1
    /\ raw[1].timestamp = IntV(MS_FROM - 1)

\* A record whose only timestamp is the integer 0 was left out.
ZeroTimestampDropped ==
    /\ norm_pc = "returned"
    /\ raw = << [ timestamp |-> IntV(0), block_ts |-> NoneV ] >>
    /\ norm = << >>

\* C33: for a record whose timestamp is the integer ts the returned record
\* has timeStamp = ts and timestamp_ms = ts * 1000 when ts is below the
\* millisecond bound, and timeStamp = floor(ts / 1000) and timestamp_ms =
\* ts from the bound on.
C33_SecondsAndMillis ==
    (norm_pc \in { "returned", "raised" } /\ Len(raw) = 1) =>
        \A n \in RawInts :
            raw[1] = [ timestamp |-> IntV(n), block_ts |-> NoneV ] =>
                /\ Len(norm) = 1
                /\ norm[1].timeStamp = IF n < MS_FROM THEN n ELSE n \div MS_PER_SEC
                /\ norm[1].timestamp_ms = IF n < MS_FROM THEN n * MS_PER_SEC ELSE n

\* What holds: every record of a returned list carries the claimed values
\* of the integer the normalizer picked for it.
ReturnedSecondsAndMillis ==
    \A i \in DOMAIN norm :
        LET n == IntOf(PickTs(norm_fn, norm[i].raw))
        IN  /\ norm[i].timeStamp = IF n < MS_FROM THEN n ELSE n \div MS_PER_SEC
            /\ norm[i].timestamp_ms = IF n < MS_FROM THEN n * MS_PER_SEC ELSE n

\* Values on both sides of the millisecond bound were converted.
ConvertedBothSides ==
    /\ norm_pc = "returned"
    /\ Len(norm) = 2
    /\ norm[1].raw.timestamp = IntV(MS_FROM + MS_PER_SEC)
    /\ norm[1].timeStamp = (MS_FROM \div MS_PER_SEC) + 1
    /\ norm[2].raw.timestamp = IntV(3)
    /\ norm[2].timestamp_ms = 3 * MS_PER_SEC

=============================================================================
